---- MODULE Spec2Model ----
(***************************************************************************)
(* A model of the sms-gateway daemon: the persistent delivery pipeline     *)
(* (state.json, inbox/ and sent/, the inbox watcher, the HTTP enqueue      *)
(* path, the delivery-failure tracker) and the modem response parser.      *)
(***************************************************************************)
EXTENDS Integers, Sequences, FiniteSets, TLC

VARIABLES
    now,        \* time.Now().Unix(), the clock every component reads
    run,        \* "running" | "panicked": the daemon process
    data,       \* state.State.data (internalState), in memory
    stateFile,  \* ${dataDir}/state.json, the persisted JSON object
    inbox,      \* ${dataDir}/messages/inbox: set of [name, body]
    sent,       \* ${dataDir}/messages/sent: set of [name, body]
    failures,   \* deliveryfailure.failures: id -> DeliveryFailure
    wpc,        \* position of the inboxWatcher goroutine
    files,      \* inboxWatcher: what is left of this tick's listing
    cur,        \* inboxWatcher: the message sendMessage works on
    hpc,        \* position of the HTTP handler sendSms
    hid,        \* sendSms: the id obtained from NewMessageId
    hname,      \* StoreMessage: msg.ToFileName() of the request
    restarts,   \* how often the process has been started again
    txCount,    \* history: id -> number of successful modem.SendSms
    txTimes,    \* history: second -> number of successful modem.SendSms
    allocCount, \* history: id -> how often NewMessageId returned it
    remembered, \* history: file names RememberSmsSend has returned for
    wakeAt,     \* inboxWatcher: when its time.Sleep(1 * time.Second) ends
    healthy     \* environment: TRUE once the modem succeeds on every attempt

VARIABLES
    currentIndex,       \* expectedString.currentIndex of the four globals
    currentlyMatching,  \* responseMatcher.currentlyMatching
    matched,            \* responseMatcher.matched
    buffer,             \* responseMatcher.buffer
    lines,              \* responseMatcher.lines, the value returned
    requiresOkOrError,  \* parseModemResponse: its flag
    stream,             \* the bytes the modem sends during this invocation
    consumed,           \* how many of them byteFromModem has handed out
    timedOut,           \* the last call of byteFromModem reported a timeout
    pieces,             \* how many pieces the modem has sent of them
    ppc,                \* "idle" | "read" | "done" | "timeout" | "error"
    calls               \* number of parseModemResponse invocations so far

VARIABLES
    kpc,                \* keepAliveThread: "check" | "create" | "write" | "rename" | "stopped"
    kid,                \* keepAliveThread: msgId
    kname,              \* StoreMessage called by keepAliveThread: the file name
    kwakeAt             \* end of keepAliveThread's time.Sleep

keepVars == <<kpc, kid, kname, kwakeAt>>

VARIABLES
    dropOnRateLimit     \* Config.dropOnRateLimit

configVars == <<dropOnRateLimit>>

VARIABLES
    mpc,                \* main: "wait" | "http" | "queue" | "queuewait" | "keep"
                        \*       | "keepwait" | "flush" | "stop" | "exited"
    sigAt,              \* main: the second the signal arrived in
    http,               \* httpServer: "open" | "inflight" | "closed"
    shutdownTriggered,  \* msgqueue.shutdownTriggered
    shutdown            \* keepalive.shutdown

mainVars == <<mpc, sigAt, http, shutdownTriggered, shutdown>>

VARIABLES
    serialPort,         \* modem.serialPort: "open" | "nil"
    ipc,                \* msgqueue.Init: "deferred" (inboxWatcher started,
                        \* the deferred modem.Close() pending) | "returned"
    rcpt,               \* internalSendSms: position in GetSmsRecipients()
    received            \* history: received[r][id], the number of times the
                        \* modem was given the body of id for recipient r

modemVars == <<serialPort, ipc, rcpt, received>>

VARIABLES
    stateMutex,         \* package state, var mutex: "free" | "watcher"
                        \* (held by RememberSmsSend between append and trim)
    kts1                \* keepAliveThread: ts1

lockVars == <<stateMutex, kts1>>

VARIABLES
    modemMutex,         \* package modem, var mutex: "free" | "held"
    spc,                \* SendSms called by sendMessage: "idle" |
                        \* "needsInit" | "open" | "initcmd" | "lock" | "cpinq"
                        \* | "cpin" | "cmgf" | "recipient" | "cmgs" | "body"
                        \* | "close" | "remember"
    exchanges,          \* history: what the current SendSms call did on the
                        \* serial port, one record per serial.Open and per
                        \* sendCmd/sendBytes
    result,             \* SendResult of the current or latest SendSms call
    prev                \* SendResult of the call before the current one

sessionVars == <<modemMutex, spc, exchanges, result, prev>>

VARIABLES
    limit1,             \* appConfig.GetRateLimit1(): Nil or a RateLimit
    limit2,             \* appConfig.GetRateLimit2()
    stamps,             \* c.data.Timestamps of the call
    clock,              \* time.Now().Unix() of the call
    exceeded,           \* what IsAnyRateLimitExceeded returned, Nil before
    cmpId,              \* the receiver of MessageId.Compare
    cmpOther,           \* its argument
    cmpResult           \* what Compare and IsOlder returned, Nil before

limitVars == <<limit1, limit2, stamps, clock, exceeded>>
compareVars == <<cmpId, cmpOther, cmpResult>>
pureVars == <<limitVars, compareVars>>

parserVars == <<currentIndex, currentlyMatching, matched, buffer, lines,
                requiresOkOrError, stream, consumed, timedOut, pieces, ppc,
                calls>>

vars == <<now, run, data, stateFile, inbox, sent, failures, wpc, files, cur,
          hpc, hid, hname, restarts, txCount, txTimes, allocCount,
          remembered, wakeAt, healthy, parserVars, keepVars, configVars, mainVars, modemVars, lockVars, sessionVars, pureVars>>

----------------------------------------------------------------------------
(* Bounds of the model *)

MaxTime == 2
MaxId == 2
MaxRestarts == 1
BackoffHorizon == 4030
HistoryCap == 2
MaxTokens == 5
MaxCalls == 2
MaxBurst == 10

(* Configuration: sms.rateLimit1 = "1/1s", sms.rateLimit2 absent,
   sms.dropOnRateLimit = false *)
Nil == <<>>
Some(v) == <<v>>
Val(p) == p[1]
RateLimit1 == Some([Threshold |-> 1, Interval |-> 1])
RateLimit2 == Nil
DropOnRateLimit == FALSE
Body == "text"
\* keepAliveInterval, in seconds, and keepAliveMessage
\* sms.recipients: two numbers
NumRecipients == 2
KeepAliveInterval == Some(1)
KeepAliveMessage == "keepalive"

Ids == 1..(MaxId + 1)
Min(a, b) == IF a < b THEN a ELSE b
Max(a, b) == IF a > b THEN a ELSE b
Bump(f, k) == [f EXCEPT ![k] = Min(@ + 1, HistoryCap)]

----------------------------------------------------------------------------
(* package message *)

Digits == <<"0", "1", "2", "3", "4", "5", "6", "7", "8", "9">>
IsDigit(c) == \E i \in 1..10 : Digits[i] = c
DigitValue(c) == (CHOOSE i \in 1..10 : Digits[i] = c) - 1

RECURSIVE FormatInt(_)
FormatInt(n) ==
    IF n < 10 THEN <<Digits[n + 1]>>
    ELSE FormatInt(n \div 10) \o <<Digits[(n % 10) + 1]>>

RECURSIVE ParseInt(_)
ParseInt(s) ==
    IF s = <<>> THEN 0
    ELSE 10 * ParseInt(SubSeq(s, 1, Len(s) - 1)) + DigitValue(s[Len(s)])

FirstMessageId == 1

\* NextId that returns the id itself
NextIdSame(id) == id

\* MessageId.NextId
NextId(id) == id + 1

\* MessageId.Compare: the branch for id < other is empty, so it yields 0 there
Compare(id, other) == IF id > other THEN 1 ELSE 0

ToFileName(id, creationTs) == FormatInt(id) \o <<"_">> \o FormatInt(creationTs)
TmpSuffix == <<".", "t", "m", "p">>

\* length of the longest run of digits of s that starts at position from
RECURSIVE DigitRun(_, _)
DigitRun(s, from) ==
    IF from <= Len(s) /\ IsDigit(s[from]) THEN 1 + DigitRun(s, from + 1) ELSE 0

\* MsgFromFileName: the regular expression ^([0-9]+)_([0-9]+) is anchored at
\* the start of the name only
MsgFromFileName(name) ==
    LET n1 == DigitRun(name, 1)
        n2 == DigitRun(name, n1 + 2)
    IN  IF n1 >= 1 /\ Len(name) >= n1 + 1 /\ name[n1 + 1] = "_" /\ n2 >= 1
        THEN [ok |-> TRUE,
              Id |-> ParseInt(SubSeq(name, 1, n1)),
              CreationTimestamp |-> ParseInt(SubSeq(name, n1 + 2, n1 + 1 + n2)),
              FileName |-> name]
        ELSE [ok |-> FALSE, Id |-> 0, CreationTimestamp |-> 0, FileName |-> name]

----------------------------------------------------------------------------
(* package state *)

newInternalState ==
    [Timestamps |-> <<>>,
     LastSuccessfulMessageId |-> Nil,
     PendingMessageIds |-> <<>>,
     NextMessageId |-> FirstMessageId,
     LastKeepAliveMsgEnqueued |-> Nil]

\* json.Marshal(c.data): the fields under their json tags
Marshal(d) ==
    [msg_timestamps |-> d.Timestamps,
     last_successful_message_id |-> d.LastSuccessfulMessageId,
     pending_message_ids |-> d.PendingMessageIds,
     next_message_id |-> d.NextMessageId,
     last_keepalive_msg_enqueued |-> d.LastKeepAliveMsgEnqueued]

\* json.Unmarshal(content, &result.data)
Unmarshal(j) ==
    [Timestamps |-> j.msg_timestamps,
     LastSuccessfulMessageId |-> j.last_successful_message_id,
     PendingMessageIds |-> j.pending_message_ids,
     NextMessageId |-> j.next_message_id,
     LastKeepAliveMsgEnqueued |-> j.last_keepalive_msg_enqueued]

\* (c *State) writeState: what state.json holds afterwards
writeState(d) == Marshal(d)

\* state.Init: state.json exists after the first start and is loaded
StateInit(file) == Unmarshal(file)

\* (c *State) countSms: scan from the end of the slice, stop at the first
\* entry older than the interval
RECURSIVE countSmsFrom(_, _, _, _)
countSmsFrom(ts, i, t, maxTs) ==
    IF i < 1 THEN 0
    ELSE IF t - ts[i] > maxTs THEN 0
    ELSE 1 + countSmsFrom(ts, i - 1, t, maxTs)

\* countSms with the comparison ageInSeconds >= maxTs
countSmsStrict(d, t, interval) ==
    countSmsFrom(d.Timestamps, Len(d.Timestamps), t, interval - 1)

countSms(d, t, interval) == countSmsFrom(d.Timestamps, Len(d.Timestamps), t, interval)

\* IsThresholdExceeded with >= in place of >
IsThresholdReached(r, value) == value >= r.Threshold

\* (r *RateLimit) IsThresholdExceeded
IsThresholdExceeded(r, value) == value > r.Threshold

\* IsAnyRateLimitExceeded that looks at rate limit #2 only
IsAnyRateLimitExceededOnly2(d, t) ==
    IF Len(d.Timestamps) = 0 THEN FALSE
    ELSE IF RateLimit2 # Nil
            /\ IsThresholdExceeded(Val(RateLimit2),
                                   countSms(d, t, Val(RateLimit2).Interval))
         THEN TRUE
    ELSE FALSE

\* (c *State) IsAnyRateLimitExceeded
IsAnyRateLimitExceeded(d, t) ==
    IF Len(d.Timestamps) = 0 THEN FALSE
    ELSE IF RateLimit1 # Nil
            /\ IsThresholdExceeded(Val(RateLimit1),
                                   countSms(d, t, Val(RateLimit1).Interval))
         THEN TRUE
    ELSE IF RateLimit2 # Nil
            /\ IsThresholdExceeded(Val(RateLimit2),
                                   countSms(d, t, Val(RateLimit2).Interval))
         THEN TRUE
    ELSE FALSE

InSeq(x, s) == \E i \in 1..Len(s) : s[i] = x

\* (c *State) WasSentAlready
WasSentAlready(d, msgId) ==
    IF InSeq(msgId, d.PendingMessageIds) THEN FALSE
    ELSE d.LastSuccessfulMessageId # Nil
         /\ Compare(msgId, Val(d.LastSuccessfulMessageId)) <= 0

\* deletePendingMessageId with a loop that never finds the id
deletePendingMessageIdNever(pending, msgId) == pending

\* (c *State) deletePendingMessageId: removes the first occurrence
deletePendingMessageId(pending, msgId) ==
    IF InSeq(msgId, pending)
    THEN LET idx == CHOOSE i \in 1..Len(pending) :
                       pending[i] = msgId /\ \A j \in 1..(i - 1) : pending[j] # msgId
         IN  SubSeq(pending, 1, idx - 1) \o SubSeq(pending, idx + 1, Len(pending))
    ELSE pending

\* RememberSmsSend: the cut-off derived from the configured rate limits
CutOffTimestamp(t) ==
    IF RateLimit1 # Nil
    THEN IF RateLimit2 # Nil
         THEN IF Val(RateLimit1).Interval > Val(RateLimit2).Interval
              THEN t - Val(RateLimit1).Interval
              ELSE t - Val(RateLimit2).Interval
         ELSE t - Val(RateLimit1).Interval
    ELSE IF RateLimit2 # Nil THEN t - Val(RateLimit2).Interval
    ELSE -1

\* RememberSmsSend: the loop that shortens the slice. It walks from the end,
\* and at the first entry below the cut-off keeps the first len-(i+1) entries.
TrimTimestamps(ts, cutOff) ==
    IF cutOff = -1 THEN ts
    ELSE LET old == {i \in 1..Len(ts) : ts[i] < cutOff}
         IN  IF old = {} THEN ts
             ELSE LET i == CHOOSE k \in old : \A m \in old : m <= k
                  IN  SubSeq(ts, 1, Len(ts) - i)

\* RememberSmsSend panics when the id is not above the last successful one
RememberPanics(d, msgId) ==
    d.LastSuccessfulMessageId # Nil
    /\ Compare(msgId, Val(d.LastSuccessfulMessageId)) <= 0

\* RememberSmsSend that puts the second of the send in front
RememberSmsSendInFront(d, msgId, t) ==
    [d EXCEPT !.PendingMessageIds = deletePendingMessageId(@, msgId),
              !.LastSuccessfulMessageId = Some(msgId),
              !.Timestamps = TrimTimestamps(<<t>> \o @, CutOffTimestamp(t))]

\* RememberSmsSend: the in-memory state after a call that does not panic
RememberSmsSend(d, msgId, t) ==
    [d EXCEPT !.PendingMessageIds = deletePendingMessageId(@, msgId),
              !.LastSuccessfulMessageId = Some(msgId),
              !.Timestamps = TrimTimestamps(Append(@, t), CutOffTimestamp(t))]

----------------------------------------------------------------------------
(* package deliveryfailure *)

BackoffCap == 10

HasFailure(id) == id \in DOMAIN failures

\* IsDue: delaySeconds, int(math.Pow(float64(cnt), 3)) of the capped count
delaySeconds(failureCount) ==
    LET cnt == IF failureCount > BackoffCap THEN BackoffCap ELSE failureCount
    IN  cnt * cnt * cnt

\* deliveryfailure.IsDue without the cap on the failure count
IsDueUncapped(id, t) ==
    IF ~HasFailure(id) THEN TRUE
    ELSE LET cnt == failures[id].FailureCount
             dueDate == failures[id].LastFailureTimestamp + cnt * cnt * cnt
         IN  dueDate < t \/ dueDate = t

\* deliveryfailure.IsDue
IsDue(id, t) ==
    IF ~HasFailure(id) THEN TRUE
    ELSE LET dueDate == failures[id].LastFailureTimestamp
                            + delaySeconds(failures[id].FailureCount)
         IN  dueDate < t \/ dueDate = t

\* deliveryfailure.DeliveryFailed
DeliveryFailed(id, t) ==
    LET old == IF HasFailure(id) THEN failures[id].FailureCount ELSE 0
    IN  [k \in DOMAIN failures \cup {id} |->
            IF k = id
            THEN [FailureCount |-> old + 1, LastFailureTimestamp |-> t]
            ELSE failures[k]]

\* deliveryfailure.DeliverySuccessful
DeliverySuccessful(id) == [k \in DOMAIN failures \ {id} |-> failures[k]]

\* deliveryfailure.DeliveryAborted
DeliveryAborted(id) == [k \in DOMAIN failures \ {id} |-> failures[k]]

NoFailures == [k \in {} |-> 0]

----------------------------------------------------------------------------
(* package msgqueue: the two directories *)

Ord(c) ==
    CASE c = "." -> 46
      [] IsDigit(c) -> 48 + DigitValue(c)
      [] c = "_" -> 95
      [] c = "m" -> 109
      [] c = "p" -> 112
      [] c = "t" -> 116
      [] OTHER -> 0

\* byte-wise order of two file names, as os.ReadDir sorts its entries
RECURSIVE NameLess(_, _)
NameLess(a, b) ==
    IF a = <<>> THEN b # <<>>
    ELSE IF b = <<>> THEN FALSE
    ELSE IF Ord(Head(a)) # Ord(Head(b)) THEN Ord(Head(a)) < Ord(Head(b))
    ELSE NameLess(Tail(a), Tail(b))

RECURSIVE SortNames(_)
SortNames(S) ==
    IF S = {} THEN <<>>
    ELSE LET m == CHOOSE x \in S : \A y \in S \ {x} : NameLess(x, y)
         IN  <<m>> \o SortNames(S \ {m})

NamesIn(dir) == {f.name : f \in dir}
FileExist(dir, name) == name \in NamesIn(dir)
FileIn(dir, name) == CHOOSE f \in dir : f.name = name
Remove(dir, name) == {f \in dir : f.name # name}
\* os.Create and os.Rename replace a file that already has the name
Put(dir, name, body) == Remove(dir, name) \cup {[name |-> name, body |-> body]}

\* listFilesInInbox: os.ReadDir returns the entries sorted by file name
listFilesInInbox == SortNames(NamesIn(inbox))

NoMsg == [Id |-> 0, FileName |-> <<>>]

IsTmpName(name) ==
    Len(name) > 4 /\ SubSeq(name, Len(name) - 3, Len(name)) = TmpSuffix

----------------------------------------------------------------------------
(* package modem: the response parser. Bytes are one-character strings, a
   line is a sequence of bytes. *)

CR == "\r"
LF == "\n"
CRLF == <<CR, LF>>
OkBytes == <<"O", "K">>
ErrorBytes == <<"E", "R", "R", "O", "R">>

\* var terminatingNewline, okMsg, errorMsg, startingNewline: expected
expected(e) ==
    CASE e = "terminatingNewline" -> CRLF
      [] e = "okMsg" -> OkBytes
      [] e = "errorMsg" -> ErrorBytes
      [] e = "startingNewline" -> CRLF

\* var terminatingNewline, okMsg, errorMsg, startingNewline: next
next(e) ==
    CASE e = "terminatingNewline" -> <<>>
      [] e = "okMsg" -> <<"terminatingNewline">>
      [] e = "errorMsg" -> <<"terminatingNewline">>
      [] e = "startingNewline" -> <<"okMsg", "errorMsg">>

ExpectedStrings == {"terminatingNewline", "okMsg", "errorMsg", "startingNewline"}

\* the globals as the Go runtime initialises them: currentIndex: 0
initialCurrentIndex == [e \in ExpectedStrings |-> 0]

\* (r *responseMatcher) wasMatched
wasMatched(m, match) == \E i \in 1..Len(m) : m[i] = match

\* (r *responseMatcher) tryMatch: the parse state it returns and what it
\* leaves in currentlyMatching, the globals' currentIndex and matched
tryMatch(cm, idx, m, byte) ==
    IF idx[cm] = Len(expected(cm))
    THEN LET hits == {i \in 1..Len(next(cm)) : expected(next(cm)[i])[1] = byte}
         IN  IF hits # {}
             THEN LET candidate == next(cm)[CHOOSE i \in hits : \A j \in hits : i <= j]
                  IN  [state |-> IF Len(expected(candidate)) = 1
                                    /\ Len(next(candidate)) = 0
                                 THEN "PARSE_STATE_MATCH_DONE"
                                 ELSE "PARSE_STATE_MATCH_CONTINUE",
                       currentlyMatching |-> candidate,
                       currentIndex |-> [idx EXCEPT ![candidate] = 1],
                       matched |-> m]
             ELSE [state |-> "PARSE_STATE_MATCH_FAILED",
                   currentlyMatching |-> cm,
                   currentIndex |-> idx,
                   matched |-> m]
    ELSE IF expected(cm)[idx[cm] + 1] = byte
    THEN LET complete == idx[cm] + 1 = Len(expected(cm))
         IN  [state |-> IF complete /\ Len(next(cm)) = 0
                        THEN "PARSE_STATE_MATCH_DONE"
                        ELSE "PARSE_STATE_MATCH_CONTINUE",
              currentlyMatching |-> cm,
              currentIndex |-> [idx EXCEPT ![cm] = @ + 1],
              matched |-> IF complete THEN Append(m, cm) ELSE m]
    ELSE [state |-> "PARSE_STATE_MATCH_FAILED",
          currentlyMatching |-> "nil",
          currentIndex |-> idx,
          matched |-> m]

\* lineFeedRegEx.Split(bufAsString, -1)
RECURSIVE Split(_)
Split(s) ==
    LET at == {i \in 1..(Len(s) - 1) : s[i] = CR /\ s[i + 1] = LF}
    IN  IF at = {} THEN <<s>>
        ELSE LET i == CHOOSE k \in at : \A j \in at : k <= j
             IN  <<SubSeq(s, 1, i - 1)>> \o Split(SubSeq(s, i + 2, Len(s)))

\* len(strings.TrimSpace(line)) > 0
IsSpace(b) == b \in {" ", "\t", LF, CR, "\f"}
NonBlank(line) == \E i \in 1..Len(line) : ~IsSpace(line[i])

\* the loop of flushCharBuffer: the lines a buffer adds to r.lines
RECURSIVE KeepNonBlank(_)
KeepNonBlank(ls) ==
    IF ls = <<>> THEN <<>>
    ELSE IF NonBlank(Head(ls)) THEN <<Head(ls)>> \o KeepNonBlank(Tail(ls))
    ELSE KeepNonBlank(Tail(ls))

\* (r *responseMatcher) flushCharBuffer: r.lines afterwards
flushCharBuffer(ls, buf) ==
    IF Len(buf) > 0 THEN ls \o KeepNonBlank(Split(buf)) ELSE ls

\* strings.Contains
Contains(line, sub) ==
    \E i \in 1..(Len(line) - Len(sub) + 1) : SubSeq(line, i, i + Len(sub) - 1) = sub

----------------------------------------------------------------------------
(* The state after construction: state.Init has written a fresh state.json,
   msgqueue.Init has created both directories and started inboxWatcher *)

\* everything but the configuration read by config.LoadConfig
\* no call of IsAnyRateLimitExceeded or Compare is looked at on its own
NothingCalled ==
    /\ limit1 = RateLimit1
    /\ limit2 = RateLimit2
    /\ stamps = <<>>
    /\ clock = 0
    /\ exceeded = Nil
    /\ cmpId = FirstMessageId
    /\ cmpOther = FirstMessageId
    /\ cmpResult = Nil

InitProcess ==
    /\ now = 0
    /\ run = "running"
    /\ data = newInternalState
    /\ stateFile = writeState(newInternalState)
    /\ inbox = {}
    /\ sent = {}
    /\ failures = NoFailures
    /\ wpc = "list"
    /\ files = <<>>
    /\ cur = NoMsg
    /\ hpc = "idle"
    /\ hid = 0
    /\ hname = <<>>
    /\ restarts = 0
    /\ txCount = [i \in Ids |-> 0]
    /\ txTimes = [t \in 0..MaxTime |-> 0]
    /\ allocCount = [i \in Ids |-> 0]
    /\ remembered = {}
    /\ wakeAt = 0
    /\ healthy = FALSE
    /\ currentIndex = initialCurrentIndex
    /\ currentlyMatching = "nil"
    /\ matched = <<>>
    /\ buffer = <<>>
    /\ lines = <<>>
    /\ requiresOkOrError = FALSE
    /\ stream = <<>>
    /\ consumed = 0
    /\ timedOut = FALSE
    /\ pieces = 0
    /\ ppc = "idle"
    /\ calls = 0
    /\ kpc = "check"
    /\ kid = 0
    /\ kname = <<>>
    /\ kwakeAt = 0
    /\ mpc = "wait"
    /\ sigAt = 0
    /\ http = "open"
    /\ shutdownTriggered = FALSE
    /\ shutdown = FALSE
    /\ rcpt = 1
    /\ received = [r \in 1..NumRecipients |-> [i \in Ids |-> 0]]
    /\ stateMutex = "free"
    /\ kts1 = Nil
    /\ modemMutex = "free"
    /\ spc = "idle"
    /\ exchanges = <<>>
    /\ result = "none"
    /\ prev = "none"

InitState == InitProcess /\ NothingCalled

\* msgqueue.Init has returned: its deferred modem.Close() has closed the
\* serial port that modem.Init opened
InitReturned ==
    /\ serialPort = "nil"
    /\ ipc = "returned"

\* sms.dropOnRateLimit = false
Init ==
    /\ InitState
    /\ dropOnRateLimit = DropOnRateLimit
    /\ InitReturned

\* either setting of sms.dropOnRateLimit
DropInit ==
    /\ InitState
    /\ dropOnRateLimit \in BOOLEAN
    /\ InitReturned

Running == run = "running"

histVars == <<txCount, txTimes, allocCount, remembered>>
httpVars == <<hpc, hid, hname>>
watcherVars == <<wpc, files, cur, wakeAt>>
envVars == <<healthy>>
pipelineVarsButMain == <<now, run, data, stateFile, inbox, sent, failures,
                         watcherVars, httpVars, restarts, histVars, envVars,
                         keepVars, configVars, modemVars, lockVars, sessionVars, pureVars>>

\* the clock advances by one second
Tick ==
    /\ Running
    /\ now < MaxTime
    /\ now' = now + 1
    /\ UNCHANGED <<run, data, stateFile, inbox, sent, failures, watcherVars,
                   httpVars, restarts, histVars, envVars, parserVars, keepVars, configVars, mainVars, modemVars, lockVars, sessionVars, pureVars>>

----------------------------------------------------------------------------
(* restapi.sendSms: NewMessageId, then StoreMessage step by step *)

\* (c *State) NewMessageId
NewMessageIdKeepNext(d) ==
    [d EXCEPT !.PendingMessageIds = Append(@, d.NextMessageId)]
NewMessageId(d) ==
    [d EXCEPT !.PendingMessageIds = Append(@, d.NextMessageId),
              !.NextMessageId = NextId(d.NextMessageId)]

\* (c *State) DiscardMessageId
DiscardMessageId(d, msgId) ==
    [d EXCEPT !.PendingMessageIds = deletePendingMessageId(@, msgId)]

HttpNewMessageId ==
    /\ Running
    /\ http # "closed"
    /\ hpc = "idle"
    /\ data.NextMessageId <= MaxId
    /\ hid' = data.NextMessageId
    /\ data' = NewMessageId(data)
    /\ allocCount' = Bump(allocCount, data.NextMessageId)
    /\ hpc' = "create"
    /\ UNCHANGED <<now, run, stateFile, inbox, sent, failures, watcherVars,
                   hname, restarts, txCount, txTimes, remembered, envVars,
                   parserVars, keepVars, configVars, mainVars, modemVars, lockVars, sessionVars, pureVars>>

\* StoreMessage: os.Create(tmpPath)
StoreCreate ==
    /\ Running
    /\ hpc = "create"
    /\ hname' = ToFileName(hid, now)
    /\ inbox' = Put(inbox, ToFileName(hid, now) \o TmpSuffix, "")
    /\ hpc' = "write"
    /\ UNCHANGED <<now, run, data, stateFile, sent, failures, watcherVars,
                   hid, restarts, histVars, envVars, parserVars, keepVars, configVars, mainVars, modemVars, lockVars, sessionVars, pureVars>>

\* StoreMessage: file.Write and file.Close. The handle stays valid when the
\* scheduler has removed or renamed the directory entry meanwhile.
StoreWrite ==
    /\ Running
    /\ hpc = "write"
    /\ inbox' = IF FileExist(inbox, hname \o TmpSuffix)
                THEN Put(inbox, hname \o TmpSuffix, Body)
                ELSE inbox
    /\ sent' = IF FileExist(sent, hname \o TmpSuffix)
               THEN Put(sent, hname \o TmpSuffix, Body)
               ELSE sent
    /\ hpc' = "rename"
    /\ UNCHANGED <<now, run, data, stateFile, failures, watcherVars,
                   hid, hname, restarts, histVars, envVars, parserVars, keepVars, configVars, mainVars, modemVars, lockVars, sessionVars, pureVars>>

\* StoreMessage: os.Rename(tmpPath, msg.AbsPath); sendSms discards the id
\* when it fails
StoreRename ==
    /\ Running
    /\ hpc = "rename"
    /\ IF FileExist(inbox, hname \o TmpSuffix)
       THEN /\ inbox' = Put(Remove(inbox, hname \o TmpSuffix), hname,
                            FileIn(inbox, hname \o TmpSuffix).body)
            /\ data' = data
       ELSE /\ inbox' = inbox
            /\ data' = DiscardMessageId(data, hid)
    /\ hpc' = "idle"
    /\ hid' = 0
    /\ hname' = <<>>
    /\ UNCHANGED <<now, run, stateFile, sent, failures, watcherVars,
                   restarts, histVars, envVars, parserVars, keepVars, configVars, mainVars, modemVars, lockVars, sessionVars, pureVars>>

----------------------------------------------------------------------------
(* keepalive.keepAliveThread, one action per blocking step *)

\* (c *State) GetLastSuccessfulSendTimestamp
GetLastSuccessfulSendTimestamp(d) ==
    IF Len(d.Timestamps) > 0 THEN Some(d.Timestamps[Len(d.Timestamps)]) ELSE Nil

\* (c *State) GetLastKeepAliveMessageEnqueued
GetLastKeepAliveMessageEnqueued(d) == d.LastKeepAliveMsgEnqueued

\* (c *State) SetLastKeepAliveMessageEnqueued
SetLastKeepAliveMessageEnqueued(d, t) ==
    [d EXCEPT !.LastKeepAliveMsgEnqueued = Some(t)]

\* (iv *TimeInterval) IsShorterThan
IsShorterThan(iv, elapsed) == iv < elapsed

\* keepAliveThread: latestTimestamp, the later of ts1 and ts2
latestTimestamp(d) ==
    LET ts1 == GetLastSuccessfulSendTimestamp(d)
        ts2 == GetLastKeepAliveMessageEnqueued(d)
    IN  IF ts1 # Nil /\ ts2 # Nil
        THEN (IF Val(ts1) > Val(ts2) THEN ts1 ELSE ts2)
        ELSE IF ts1 # Nil THEN ts1
        ELSE IF ts2 # Nil THEN ts2
        ELSE Nil

\* keepAliveThread: sendKeepAlive at second t
sendKeepAlive(d, t) ==
    /\ latestTimestamp(d) # Nil
    /\ IsShorterThan(Val(KeepAliveInterval), t - Val(latestTimestamp(d)))

\* one pass of the loop up to StoreMessage: either time.Sleep, or
\* NewMessageId
KeepAliveCheck ==
    /\ Running
    /\ kpc = "check"
    /\ now >= kwakeAt
    /\ ~shutdown
    /\ IF sendKeepAlive(data, now)
       THEN /\ data.NextMessageId <= MaxId + 1
            /\ kid' = data.NextMessageId
            /\ data' = NewMessageId(data)
            /\ allocCount' = Bump(allocCount, data.NextMessageId)
            /\ kpc' = "create"
            /\ UNCHANGED kwakeAt
       ELSE /\ kwakeAt' = now + 1
            /\ UNCHANGED <<data, allocCount, kpc, kid>>
    /\ UNCHANGED <<now, run, stateFile, inbox, sent, failures, watcherVars,
                   httpVars, restarts, txCount, txTimes, remembered, envVars,
                   parserVars,
                   kname, configVars, mainVars, modemVars, lockVars, sessionVars, pureVars>>

\* StoreMessage called by keepAliveThread: os.Create(tmpPath)
KeepAliveCreate ==
    /\ Running
    /\ kpc = "create"
    /\ kname' = ToFileName(kid, now)
    /\ inbox' = Put(inbox, ToFileName(kid, now) \o TmpSuffix, "")
    /\ kpc' = "write"
    /\ UNCHANGED <<now, run, data, stateFile, sent, failures, watcherVars,
                   httpVars, restarts, histVars, envVars, parserVars,
                   kid, kwakeAt, configVars, mainVars, modemVars, lockVars, sessionVars, pureVars>>

\* StoreMessage called by keepAliveThread: file.Write and file.Close
KeepAliveWrite ==
    /\ Running
    /\ kpc = "write"
    /\ inbox' = IF FileExist(inbox, kname \o TmpSuffix)
                THEN Put(inbox, kname \o TmpSuffix, KeepAliveMessage)
                ELSE inbox
    /\ sent' = IF FileExist(sent, kname \o TmpSuffix)
               THEN Put(sent, kname \o TmpSuffix, KeepAliveMessage)
               ELSE sent
    /\ kpc' = "rename"
    /\ UNCHANGED <<now, run, data, stateFile, failures, watcherVars,
                   httpVars, restarts, histVars, envVars, parserVars,
                   kid, kname, kwakeAt, configVars, mainVars, modemVars, lockVars, sessionVars, pureVars>>

\* StoreMessage called by keepAliveThread: os.Rename; on success
\* SetLastKeepAliveMessageEnqueued and WriteState, on failure the error is
\* logged; then time.Sleep
KeepAliveRename ==
    /\ Running
    /\ kpc = "rename"
    /\ IF FileExist(inbox, kname \o TmpSuffix)
       THEN /\ inbox' = Put(Remove(inbox, kname \o TmpSuffix), kname,
                            FileIn(inbox, kname \o TmpSuffix).body)
            /\ data' = SetLastKeepAliveMessageEnqueued(data, now)
            /\ stateFile' = writeState(data')
       ELSE /\ inbox' = inbox
            /\ data' = data
            /\ stateFile' = stateFile
    /\ kpc' = "check"
    /\ kid' = 0
    /\ kname' = <<>>
    /\ kwakeAt' = now + 1
    /\ UNCHANGED <<now, run, sent, failures, watcherVars, httpVars,
                   restarts, histVars, envVars, parserVars, configVars, mainVars, modemVars, lockVars, sessionVars, pureVars>>

----------------------------------------------------------------------------
(* msgqueue.inboxWatcher and sendMessage, one action per blocking step *)

\* inboxWatcher: files, err := listFilesInInbox()
WatcherList ==
    /\ Running
    /\ wpc = "list"
    /\ now >= wakeAt
    /\ ~shutdownTriggered
    /\ files' = listFilesInInbox
    /\ wpc' = "next"
    /\ UNCHANGED <<now, run, data, stateFile, inbox, sent, failures, cur,
                   wakeAt, httpVars, restarts, histVars, envVars, parserVars, keepVars, configVars, mainVars, modemVars, lockVars, sessionVars, pureVars>>

\* inboxWatcher: the listing is exhausted, time.Sleep(1 * time.Second)
WatcherSleep ==
    /\ Running
    /\ wpc = "next"
    /\ files = <<>>
    /\ wakeAt' = now + 1
    /\ wpc' = "list"
    /\ UNCHANGED <<now, run, data, stateFile, inbox, sent, failures, files,
                   cur, httpVars, restarts, histVars, envVars, parserVars, keepVars, configVars, mainVars, modemVars, lockVars, sessionVars, pureVars>>

\* inboxWatcher: MsgFromFileName(absPath) and deliveryfailure.IsDue(msg.Id)
WatcherNext ==
    /\ Running
    /\ wpc = "next"
    /\ files # <<>>
    /\ LET msg == MsgFromFileName(Head(files))
       IN  IF msg.ok /\ IsDue(msg.Id, now)
           THEN /\ cur' = [Id |-> msg.Id, FileName |-> msg.FileName]
                /\ wpc' = "send"
           ELSE /\ cur' = cur
                /\ wpc' = "next"
    /\ files' = Tail(files)
    /\ UNCHANGED <<now, run, data, stateFile, inbox, sent, failures, wakeAt,
                   httpVars, restarts, histVars, envVars, parserVars, keepVars, configVars, mainVars, modemVars, lockVars, sessionVars, pureVars>>

\* sendMessage: WasSentAlready, common.ReadFile, the zero-length case
SendRead ==
    /\ Running
    /\ wpc = "send"
    /\ IF WasSentAlready(data, cur.Id)
       THEN /\ wpc' = "move"
            /\ UNCHANGED <<inbox, failures>>
       ELSE IF ~FileExist(inbox, cur.FileName)
       THEN \* ReadFile fails: sendMessage returns the error
            /\ failures' = DeliveryFailed(cur.Id, now)
            /\ wpc' = "next"
            /\ inbox' = inbox
       ELSE IF FileIn(inbox, cur.FileName).body = ""
       THEN \* os.Remove, return false, nil
            /\ inbox' = Remove(inbox, cur.FileName)
            /\ failures' = DeliverySuccessful(cur.Id)
            /\ wpc' = "next"
       ELSE /\ wpc' = "modem"
            /\ UNCHANGED <<inbox, failures>>
    /\ UNCHANGED <<now, run, data, stateFile, sent, files, cur, wakeAt,
                   httpVars, restarts, histVars, envVars, parserVars, keepVars, configVars, mainVars, modemVars, lockVars, sessionVars, pureVars>>

\* modem.SendSms fails with MODEM_ERR_MODEM_ERROR
ModemError ==
    /\ Running
    /\ wpc = "modem"
    /\ ~healthy
    /\ failures' = DeliveryFailed(cur.Id, now)
    /\ wpc' = "next"
    /\ UNCHANGED <<now, run, data, stateFile, inbox, sent, files, cur, wakeAt,
                   httpVars, restarts, histVars, envVars, parserVars, keepVars, configVars, mainVars, modemVars, lockVars, sessionVars, pureVars>>

\* modem.SendSms reaches the recipient loop: IsAnyRateLimitExceeded, then
\* AT+CMGS and the body
ModemSend ==
    /\ Running
    /\ wpc = "modem"
    /\ IF IsAnyRateLimitExceeded(data, now)
       THEN /\ IF dropOnRateLimit
               THEN /\ inbox' = Remove(inbox, cur.FileName)
                    /\ failures' = DeliveryAborted(cur.Id)
               ELSE /\ inbox' = inbox
                    /\ failures' = DeliveryFailed(cur.Id, now)
            /\ wpc' = "next"
            /\ UNCHANGED <<txCount, txTimes>>
       ELSE /\ txCount' = Bump(txCount, cur.Id)
            /\ txTimes' = Bump(txTimes, now)
            /\ wpc' = "remember"
            /\ UNCHANGED <<inbox, failures>>
    /\ UNCHANGED <<now, run, data, stateFile, sent, files, cur, wakeAt,
                   httpVars, restarts, allocCount, remembered, envVars,
                   parserVars, keepVars, configVars, mainVars, modemVars, lockVars, sessionVars, pureVars>>

\* sendMessage: appState.RememberSmsSend(*msg), which ends with WriteState
Remember ==
    /\ Running
    /\ wpc = "remember"
    /\ IF RememberPanics(data, cur.Id)
       THEN /\ run' = "panicked"
            /\ UNCHANGED <<data, stateFile, wpc, remembered>>
       ELSE /\ data' = RememberSmsSend(data, cur.Id, now)
            /\ stateFile' = writeState(RememberSmsSend(data, cur.Id, now))
            /\ wpc' = "move"
            /\ run' = run
            /\ remembered' = remembered \cup {cur.FileName}
    /\ UNCHANGED <<now, inbox, sent, failures, files, cur, wakeAt,
                   httpVars, restarts, txCount, txTimes, allocCount, envVars,
                   parserVars, keepVars, configVars, mainVars, modemVars, lockVars, sessionVars, pureVars>>

\* sendMessage: os.Rename(msg.AbsPath, sentDir + "/" + msg.FileName); its
\* error is only logged, and inboxWatcher then calls DeliverySuccessful
MoveToSent ==
    /\ Running
    /\ wpc = "move"
    /\ \E renamed \in (IF healthy THEN {TRUE} ELSE BOOLEAN) :
          IF renamed /\ FileExist(inbox, cur.FileName)
          THEN /\ sent' = Put(sent, cur.FileName, FileIn(inbox, cur.FileName).body)
               /\ inbox' = Remove(inbox, cur.FileName)
          ELSE UNCHANGED <<inbox, sent>>
    /\ failures' = DeliverySuccessful(cur.Id)
    /\ wpc' = "next"
    /\ UNCHANGED <<now, run, data, stateFile, files, cur, wakeAt,
                   httpVars, restarts, histVars, envVars, parserVars, keepVars, configVars, mainVars, modemVars, lockVars, sessionVars, pureVars>>

----------------------------------------------------------------------------
(* The environment *)

\* from now on the modem succeeds on every attempt (and so does the rename)
Heal ==
    /\ ~healthy
    /\ healthy' = TRUE
    /\ UNCHANGED <<now, run, data, stateFile, inbox, sent, failures,
                   watcherVars, httpVars, restarts, histVars, parserVars, keepVars, configVars, mainVars, modemVars, lockVars, sessionVars, pureVars>>

\* the process dies at any point (kill, power loss, or after a panic) and is
\* started again: main calls state.Init, msgqueue.Init starts inboxWatcher
StartAgain ==
    /\ restarts < MaxRestarts
    /\ restarts' = restarts + 1
    /\ run' = "running"
    /\ data' = StateInit(stateFile)
    /\ failures' = NoFailures
    /\ wpc' = "list"
    /\ files' = <<>>
    /\ cur' = NoMsg
    /\ wakeAt' = 0
    /\ hpc' = "idle"
    /\ hid' = 0
    /\ hname' = <<>>
    /\ currentIndex' = initialCurrentIndex
    /\ currentlyMatching' = "nil"
    /\ matched' = <<>>
    /\ buffer' = <<>>
    /\ lines' = <<>>
    /\ ppc' = "idle"
    /\ kpc' = "check"
    /\ kid' = 0
    /\ kname' = <<>>
    /\ kwakeAt' = 0
    /\ mpc' = "wait"
    /\ sigAt' = 0
    /\ http' = "open"
    /\ shutdownTriggered' = FALSE
    /\ shutdown' = FALSE
    /\ rcpt' = 1
    /\ stateMutex' = "free"
    /\ kts1' = Nil
    /\ modemMutex' = "free"
    /\ spc' = "idle"
    /\ exchanges' = <<>>
    /\ result' = "none"
    /\ prev' = "none"
    /\ UNCHANGED <<now, stateFile, inbox, sent, histVars, envVars,
                   requiresOkOrError, stream, consumed, timedOut, pieces,
                   calls, configVars, received, pureVars>>

\* ... and msgqueue.Init has returned before anything else happens
Restart ==
    /\ StartAgain
    /\ serialPort' = "nil"
    /\ ipc' = "returned"

Next ==
    \/ Tick
    \/ HttpNewMessageId
    \/ StoreCreate
    \/ StoreWrite
    \/ StoreRename
    \/ WatcherList
    \/ WatcherSleep
    \/ WatcherNext
    \/ SendRead
    \/ ModemError
    \/ ModemSend
    \/ Remember
    \/ MoveToSent
    \/ Restart

Spec == Init /\ [][Next]_vars

\* A run in which the modem is down throughout, so that failures pile up.
\* Requests arrive in the first seconds and are served within the second
\* they arrive in; while nothing is due the watcher's ticks change nothing,
\* and the clock runs on to the second before the earliest due date.
EarlyRequest == now <= MaxTime /\ HttpNewMessageId

EarliestDue ==
    LET due == {failures[id].LastFailureTimestamp
                    + delaySeconds(failures[id].FailureCount) : id \in DOMAIN failures}
    IN  CHOOSE d \in due : \A e \in due : d <= e

Leap ==
    /\ Running
    /\ wpc = "list"
    /\ now < wakeAt
    /\ hpc = "idle"
    /\ now' = IF DOMAIN failures # {} /\ EarliestDue - 1 > now
              THEN EarliestDue - 1
              ELSE now + 1
    /\ now' <= BackoffHorizon
    /\ UNCHANGED <<run, data, stateFile, inbox, sent, failures, watcherVars,
                   httpVars, restarts, histVars, envVars, parserVars, keepVars, configVars, mainVars, modemVars, lockVars, sessionVars, pureVars>>

BackoffNext ==
    \/ EarlyRequest
    \/ StoreCreate
    \/ StoreWrite
    \/ StoreRename
    \/ WatcherList
    \/ WatcherSleep
    \/ WatcherNext
    \/ SendRead
    \/ ModemError
    \/ Leap

BackoffSpec == Init /\ [][BackoffNext]_vars

\* One run of the daemon in which the environment stops failing at some
\* point. Both goroutines and the clock keep running: each of their steps is
\* taken when it stays enabled.
LiveNext ==
    \/ Tick
    \/ HttpNewMessageId
    \/ StoreCreate
    \/ StoreWrite
    \/ StoreRename
    \/ WatcherList
    \/ WatcherSleep
    \/ WatcherNext
    \/ SendRead
    \/ ModemError
    \/ ModemSend
    \/ Remember
    \/ MoveToSent
    \/ Heal

LiveSpec ==
    /\ Init
    /\ [][LiveNext]_vars
    /\ WF_vars(Tick)
    /\ WF_vars(WatcherList)
    /\ WF_vars(WatcherSleep)
    /\ WF_vars(WatcherNext)
    /\ WF_vars(SendRead)
    /\ WF_vars(ModemSend)
    /\ WF_vars(Remember)
    /\ WF_vars(MoveToSent)

\* sendSms: NewMessageId for one request more, so that a third message can
\* meet the two sends that exceed rateLimit1
ExtraRequest ==
    /\ Running
    /\ http # "closed"
    /\ hpc = "idle"
    /\ data.NextMessageId = MaxId + 1
    /\ hid' = data.NextMessageId
    /\ data' = NewMessageId(data)
    /\ allocCount' = Bump(allocCount, data.NextMessageId)
    /\ hpc' = "create"
    /\ UNCHANGED <<now, run, stateFile, inbox, sent, failures, watcherVars,
                   hname, restarts, txCount, txTimes, remembered, envVars,
                   parserVars, keepVars, configVars, mainVars, modemVars, lockVars, sessionVars, pureVars>>

\* The daemon under either setting of sms.dropOnRateLimit, in one run
DropNext ==
    \/ Tick
    \/ HttpNewMessageId
    \/ ExtraRequest
    \/ StoreCreate
    \/ StoreWrite
    \/ StoreRename
    \/ WatcherList
    \/ WatcherSleep
    \/ WatcherNext
    \/ SendRead
    \/ ModemError
    \/ ModemSend
    \/ Remember
    \/ MoveToSent

DropSpec == DropInit /\ [][DropNext]_vars

\* The daemon with keepAliveInterval configured: keepalive.Init starts
\* keepAliveThread beside the HTTP handler and the watcher.
KeepAliveNext ==
    \/ Tick
    \/ HttpNewMessageId
    \/ StoreCreate
    \/ StoreWrite
    \/ StoreRename
    \/ WatcherList
    \/ WatcherSleep
    \/ WatcherNext
    \/ SendRead
    \/ ModemError
    \/ ModemSend
    \/ Remember
    \/ MoveToSent
    \/ KeepAliveCheck
    \/ KeepAliveCreate
    \/ KeepAliveWrite
    \/ KeepAliveRename

KeepAliveSpec == Init /\ [][KeepAliveNext]_vars

\* the second of the latest transmission, -1 when there was none
LastSendTime ==
    IF \E t \in 0..MaxTime : txTimes[t] > 0
    THEN CHOOSE t \in 0..MaxTime :
            /\ txTimes[t] > 0
            /\ \A u \in 0..MaxTime : txTimes[u] > 0 => u <= t
    ELSE -1

\* C15: the keep-alive worker allocates an id for a keep-alive only when
\* something was sent or enqueued as keep-alive before, and only when more
\* than keepAliveInterval has passed since the latest remembered send and
\* since the latest keep-alive enqueued; a keep-alive enqueued sets
\* last_keepalive_enqueued_ts to now and persists the state
C15_KeepAliveOnlyAfterInterval ==
    [][/\ (kpc = "check" /\ kpc' = "create" /\ wpc # "remember") =>
            /\ LastSendTime >= 0 \/ data.LastKeepAliveMsgEnqueued # Nil
            /\ LastSendTime >= 0 =>
                  now - LastSendTime > Val(KeepAliveInterval)
            /\ data.LastKeepAliveMsgEnqueued # Nil =>
                  now - Val(data.LastKeepAliveMsgEnqueued) > Val(KeepAliveInterval)
       /\ (kpc = "rename" /\ kpc' = "check" /\ FileExist(inbox', kname)) =>
            /\ data'.LastKeepAliveMsgEnqueued = Some(now)
            /\ stateFile' = writeState(data')]_vars

----------------------------------------------------------------------------
(* main after SIGINT/SIGTERM: its deferred calls in the order they run *)

\* restapi.Shutdown: the deadline of httpServer.Shutdown, in seconds
DrainSeconds == 2

\* main: sig := <-sigChan
Signal ==
    /\ Running
    /\ mpc = "wait"
    /\ mpc' = "http"
    /\ sigAt' = now
    /\ UNCHANGED <<pipelineVarsButMain, parserVars, http, shutdownTriggered,
                   shutdown>>

\* restapi.Shutdown: httpServer.Shutdown(ctx) returns once no connection is
\* active, or at the deadline with a request still in flight
HttpShutdown ==
    /\ Running
    /\ mpc = "http"
    /\ \/ hpc = "idle" /\ http' = "closed"
       \/ now >= sigAt + DrainSeconds /\ http' = "inflight"
    /\ mpc' = "queue"
    /\ UNCHANGED <<pipelineVarsButMain, parserVars, sigAt, shutdownTriggered,
                   shutdown>>

\* msgqueue.Shutdown: shutdownTriggered.Store(true)
QueueShutdown ==
    /\ Running
    /\ mpc = "queue"
    /\ shutdownTriggered' = TRUE
    /\ mpc' = "queuewait"
    /\ UNCHANGED <<pipelineVarsButMain, parserVars, sigAt, http, shutdown>>

\* inboxWatcher: the loop condition when shutdownTriggered is set
WatcherStop ==
    /\ Running
    /\ wpc = "list"
    /\ now >= wakeAt
    /\ shutdownTriggered
    /\ wpc' = "stopped"
    /\ UNCHANGED <<now, run, data, stateFile, inbox, sent, failures, files,
                   cur, wakeAt, httpVars, restarts, histVars, envVars,
                   parserVars, keepVars, configVars, mainVars, modemVars, lockVars, sessionVars, pureVars>>

\* msgqueue.Shutdown: inboxWatcherShutdownLatch.Wait() returns
QueueWait ==
    /\ Running
    /\ mpc = "queuewait"
    /\ wpc = "stopped"
    /\ mpc' = "keep"
    /\ UNCHANGED <<pipelineVarsButMain, parserVars, sigAt, http,
                   shutdownTriggered, shutdown>>

\* keepalive.Shutdown: shutdown.Store(true)
KeepShutdown ==
    /\ Running
    /\ mpc = "keep"
    /\ shutdown' = TRUE
    /\ mpc' = "keepwait"
    /\ UNCHANGED <<pipelineVarsButMain, parserVars, sigAt, http,
                   shutdownTriggered>>

\* keepAliveThread: the loop condition when shutdown is set
KeepAliveStop ==
    /\ Running
    /\ kpc = "check"
    /\ now >= kwakeAt
    /\ shutdown
    /\ kpc' = "stopped"
    /\ UNCHANGED <<now, run, data, stateFile, inbox, sent, failures,
                   watcherVars, httpVars, restarts, histVars, envVars,
                   parserVars, kid, kname, kwakeAt, configVars, mainVars, modemVars, lockVars, sessionVars, pureVars>>

\* keepalive.Shutdown: shutdownLatch.Wait() returns
KeepWait ==
    /\ Running
    /\ mpc = "keepwait"
    /\ kpc = "stopped"
    /\ mpc' = "flush"
    /\ UNCHANGED <<pipelineVarsButMain, parserVars, sigAt, http,
                   shutdownTriggered, shutdown>>

\* main: the deferred appState.WriteState()
Flush ==
    /\ Running
    /\ mpc = "flush"
    /\ stateFile' = writeState(data)
    /\ mpc' = "stop"
    /\ UNCHANGED <<now, run, data, inbox, sent, failures, watcherVars,
                   httpVars, restarts, histVars, envVars, parserVars,
                   keepVars, configVars, sigAt, http, shutdownTriggered,
                   shutdown, modemVars, lockVars, sessionVars, pureVars>>

\* main: the deferred config.StopWatching(), then main returns and the
\* process with all its goroutines is gone
Exit ==
    /\ Running
    /\ mpc = "stop"
    /\ run' = "exited"
    /\ mpc' = "exited"
    /\ UNCHANGED <<now, data, stateFile, inbox, sent, failures, watcherVars,
                   httpVars, restarts, histVars, envVars, parserVars,
                   keepVars, configVars, sigAt, http, shutdownTriggered,
                   shutdown, modemVars, lockVars, sessionVars, pureVars>>

\* The daemon with keepAliveInterval configured, up to its orderly end
ShutdownNext ==
    \/ Tick
    \/ HttpNewMessageId
    \/ StoreCreate
    \/ StoreWrite
    \/ StoreRename
    \/ WatcherList
    \/ WatcherSleep
    \/ WatcherNext
    \/ SendRead
    \/ ModemError
    \/ ModemSend
    \/ Remember
    \/ MoveToSent
    \/ KeepAliveCheck
    \/ KeepAliveCreate
    \/ KeepAliveWrite
    \/ KeepAliveRename
    \/ Signal
    \/ HttpShutdown
    \/ QueueShutdown
    \/ WatcherStop
    \/ QueueWait
    \/ KeepShutdown
    \/ KeepAliveStop
    \/ KeepWait
    \/ Flush
    \/ Exit

ShutdownSpec == Init /\ [][ShutdownNext]_vars

\* A burst of requests: the daemon has just started and n requests were
\* served by sendSms within second 0, before the watcher's first listing.
\* Each got its id from NewMessageId and its file from StoreMessage.
RECURSIVE Allocated(_, _)
Allocated(d, n) == IF n = 0 THEN d ELSE NewMessageId(Allocated(d, n - 1))

BurstIds == 1..MaxBurst

BurstInit ==
    \E n \in BurstIds :
        /\ now = 0
        /\ run = "running"
        /\ data = Allocated(newInternalState, n)
        /\ stateFile = writeState(newInternalState)
        /\ inbox = {[name |-> ToFileName(id, 0), body |-> Body] : id \in 1..n}
        /\ sent = {}
        /\ failures = NoFailures
        /\ wpc = "list"
        /\ files = <<>>
        /\ cur = NoMsg
        /\ hpc = "idle"
        /\ hid = 0
        /\ hname = <<>>
        /\ restarts = 0
        /\ txCount = [i \in BurstIds |-> 0]
        /\ txTimes = [t \in 0..MaxTime |-> 0]
        /\ allocCount = [i \in BurstIds |-> IF i <= n THEN 1 ELSE 0]
        /\ remembered = {}
        /\ wakeAt = 0
        /\ healthy = FALSE
        /\ currentIndex = initialCurrentIndex
        /\ currentlyMatching = "nil"
        /\ matched = <<>>
        /\ buffer = <<>>
        /\ lines = <<>>
        /\ requiresOkOrError = FALSE
        /\ stream = <<>>
        /\ consumed = 0
        /\ timedOut = FALSE
        /\ pieces = 0
        /\ ppc = "idle"
        /\ calls = 0
        /\ kpc = "check"
        /\ kid = 0
        /\ kname = <<>>
        /\ kwakeAt = 0
        /\ mpc = "wait"
        /\ sigAt = 0
        /\ http = "open"
        /\ shutdownTriggered = FALSE
        /\ shutdown = FALSE
        /\ rcpt = 1
        /\ received = [r \in 1..NumRecipients |-> [i \in BurstIds |-> 0]]
        /\ stateMutex = "free"
        /\ kts1 = Nil
        /\ modemMutex = "free"
        /\ spc = "idle"
        /\ exchanges = <<>>
        /\ result = "none"
        /\ prev = "none"
        /\ NothingCalled
        /\ dropOnRateLimit = DropOnRateLimit
        /\ InitReturned

\* inboxWatcher working through the burst: no further request arrives and
\* the modem answers every command
BurstNext ==
    \/ Tick
    \/ WatcherList
    \/ WatcherSleep
    \/ WatcherNext
    \/ SendRead
    \/ ModemSend
    \/ Remember
    \/ MoveToSent

BurstSpec == BurstInit /\ [][BurstNext]_vars

----------------------------------------------------------------------------
(* The serial handle. msgqueue.Init opens the port through modem.Init,
   registers defer modem.Close() and starts inboxWatcher as its last
   statement; the HTTP server is started only after it has returned. *)

\* the moment after "go inboxWatcher()": the deferred Close is still pending
ModemInit ==
    /\ InitState
    /\ dropOnRateLimit = DropOnRateLimit
    /\ serialPort = "open"
    /\ ipc = "deferred"

\* msgqueue.Init returns: the deferred modem.Close() takes the mutex and
\* runs internalClose
InitReturn ==
    /\ Running
    /\ ipc = "deferred"
    /\ serialPort' = "nil"
    /\ ipc' = "returned"
    /\ UNCHANGED <<now, run, data, stateFile, inbox, sent, failures,
                   watcherVars, httpVars, restarts, histVars, envVars,
                   parserVars, keepVars, configVars, mainVars, rcpt, received, lockVars, sessionVars, pureVars>>

\* the process is started again, up to "go inboxWatcher()"
ModemRestart ==
    /\ StartAgain
    /\ serialPort' = "open"
    /\ ipc' = "deferred"

\* sendSms is served once restapi.Init has started the HTTP server
ServedNewMessageId == ipc = "returned" /\ HttpNewMessageId

\* internalSendSms: needsInit() locks, reads serialPort and unlocks
SendNeedsInit ==
    /\ Running
    /\ wpc = "modem"
    /\ wpc' = IF serialPort = "nil" THEN "initmodem" ELSE "commands"
    /\ UNCHANGED <<now, run, data, stateFile, inbox, sent, failures, files,
                   cur, wakeAt, httpVars, restarts, histVars, envVars,
                   parserVars, keepVars, configVars, mainVars, modemVars, lockVars, sessionVars, pureVars>>

\* internalSendSms: initModem() under the mutex. When it fails the port is
\* nil again and SendSms returns MODEM_ERR_MODEM_ERROR.
SendInitModem ==
    /\ Running
    /\ wpc = "initmodem"
    /\ \E opened \in (IF healthy THEN {TRUE} ELSE BOOLEAN) :
          IF opened
          THEN /\ serialPort' = "open"
               /\ wpc' = "commands"
               /\ failures' = failures
          ELSE /\ serialPort' = "nil"
               /\ wpc' = "next"
               /\ failures' = DeliveryFailed(cur.Id, now)
    /\ UNCHANGED <<now, run, data, stateFile, inbox, sent, files, cur, wakeAt,
                   httpVars, restarts, histVars, envVars, parserVars,
                   keepVars, configVars, mainVars, ipc, rcpt, received, lockVars, sessionVars, pureVars>>

\* internalSendSms from mutex.Lock() on: unlockSim calls sendCmd, which
\* panics when serialPort is nil; otherwise the commands run as in
\* ModemError and ModemSend, and SendSms closes the port after a modem error
SendCommands ==
    /\ Running
    /\ wpc = "commands"
    /\ IF serialPort = "nil"
       THEN /\ run' = "panicked"
            /\ UNCHANGED <<inbox, failures, wpc, txCount, txTimes, serialPort>>
       ELSE /\ run' = run
            /\ \E answered \in (IF healthy THEN {TRUE} ELSE BOOLEAN) :
                  IF ~answered
                  THEN /\ failures' = DeliveryFailed(cur.Id, now)
                       /\ serialPort' = "nil"
                       /\ wpc' = "next"
                       /\ UNCHANGED <<inbox, txCount, txTimes>>
                  ELSE IF IsAnyRateLimitExceeded(data, now)
                  THEN /\ IF dropOnRateLimit
                          THEN /\ inbox' = Remove(inbox, cur.FileName)
                               /\ failures' = DeliveryAborted(cur.Id)
                          ELSE /\ inbox' = inbox
                               /\ failures' = DeliveryFailed(cur.Id, now)
                       /\ wpc' = "next"
                       /\ UNCHANGED <<txCount, txTimes, serialPort>>
                  ELSE /\ txCount' = Bump(txCount, cur.Id)
                       /\ txTimes' = Bump(txTimes, now)
                       /\ wpc' = "remember"
                       /\ UNCHANGED <<inbox, failures, serialPort>>
    /\ UNCHANGED <<now, data, stateFile, sent, files, cur, wakeAt,
                   httpVars, restarts, allocCount, remembered, envVars,
                   parserVars, keepVars, configVars, mainVars, ipc, rcpt, received, lockVars, sessionVars, pureVars>>

\* the first second of each of the daemon's runs
ModemNext ==
    \/ ServedNewMessageId
    \/ StoreCreate
    \/ StoreWrite
    \/ StoreRename
    \/ WatcherList
    \/ WatcherSleep
    \/ WatcherNext
    \/ SendRead
    \/ SendNeedsInit
    \/ SendInitModem
    \/ SendCommands
    \/ Remember
    \/ MoveToSent
    \/ InitReturn
    \/ ModemRestart

ModemSpec == ModemInit /\ [][ModemNext]_vars

----------------------------------------------------------------------------
(* Several recipients: internalSendSms walks GetSmsRecipients() and hands
   the modem AT+CMGS and the body once per recipient. *)

\* the call gives up: SendSms returns MODEM_ERR_MODEM_ERROR, before the loop
\* (unlockSim, switchToPlainText) or at the AT+CMGS of the current recipient
RecipientError ==
    /\ Running
    /\ wpc = "modem"
    /\ ~healthy
    /\ failures' = DeliveryFailed(cur.Id, now)
    /\ wpc' = "next"
    /\ rcpt' = 1
    /\ UNCHANGED <<now, run, data, stateFile, inbox, sent, files, cur, wakeAt,
                   httpVars, restarts, histVars, envVars, parserVars,
                   keepVars, configVars, mainVars, serialPort, ipc, received, lockVars, sessionVars, pureVars>>

\* one iteration of the loop: IsAnyRateLimitExceeded, then AT+CMGS and the
\* body for the current recipient; after the last one SendSms succeeds
RecipientSend ==
    /\ Running
    /\ wpc = "modem"
    /\ IF IsAnyRateLimitExceeded(data, now)
       THEN /\ IF dropOnRateLimit
               THEN /\ inbox' = Remove(inbox, cur.FileName)
                    /\ failures' = DeliveryAborted(cur.Id)
               ELSE /\ inbox' = inbox
                    /\ failures' = DeliveryFailed(cur.Id, now)
            /\ wpc' = "next"
            /\ rcpt' = 1
            /\ UNCHANGED <<txCount, txTimes, received>>
       ELSE /\ received' = [received EXCEPT ![rcpt] = Bump(@, cur.Id)]
            /\ txCount' = Bump(txCount, cur.Id)
            /\ txTimes' = Bump(txTimes, now)
            /\ IF rcpt = NumRecipients
               THEN wpc' = "remember" /\ rcpt' = 1
               ELSE wpc' = "modem" /\ rcpt' = rcpt + 1
            /\ UNCHANGED <<inbox, failures>>
    /\ UNCHANGED <<now, run, data, stateFile, sent, files, cur, wakeAt,
                   httpVars, restarts, allocCount, remembered, envVars,
                   parserVars, keepVars, configVars, mainVars, serialPort, ipc, lockVars, sessionVars, pureVars>>

\* one run of the daemon, the modem failing now and then
RecipientsNext ==
    \/ Tick
    \/ HttpNewMessageId
    \/ StoreCreate
    \/ StoreWrite
    \/ StoreRename
    \/ WatcherList
    \/ WatcherSleep
    \/ WatcherNext
    \/ SendRead
    \/ RecipientError
    \/ RecipientSend
    \/ Remember
    \/ MoveToSent

RecipientsSpec == Init /\ [][RecipientsNext]_vars

----------------------------------------------------------------------------
(* The State mutex. RememberSmsSend holds it from its check to the end of
   its trim loop; GetLastSuccessfulSendTimestamp reads s.data.Timestamps
   without taking it. *)

\* RememberSmsSend from mutex.Lock() to the append
RememberAppend ==
    /\ Running
    /\ wpc = "remember"
    /\ stateMutex = "free"
    /\ IF RememberPanics(data, cur.Id)
       THEN /\ run' = "panicked"
            /\ UNCHANGED <<data, wpc, stateMutex>>
       ELSE /\ data' = [data EXCEPT
                           !.PendingMessageIds = deletePendingMessageId(@, cur.Id),
                           !.LastSuccessfulMessageId = Some(cur.Id),
                           !.Timestamps = Append(@, now)]
            /\ stateMutex' = "watcher"
            /\ wpc' = "trim"
            /\ run' = run
    /\ UNCHANGED <<now, stateFile, inbox, sent, failures, files, cur, wakeAt,
                   httpVars, restarts, histVars, envVars, parserVars,
                   keepVars, configVars, mainVars, modemVars, kts1, sessionVars, pureVars>>

\* RememberSmsSend: the trim loop for the second just appended,
\* mutex.Unlock(), WriteState
RememberTrim ==
    /\ Running
    /\ wpc = "trim"
    /\ LET nowInSeconds == data.Timestamps[Len(data.Timestamps)]
           trimmed == [data EXCEPT !.Timestamps =
                          TrimTimestamps(@, CutOffTimestamp(nowInSeconds))]
       IN  /\ data' = trimmed
           /\ stateFile' = writeState(trimmed)
    /\ stateMutex' = "free"
    /\ remembered' = remembered \cup {cur.FileName}
    /\ wpc' = "move"
    /\ UNCHANGED <<now, run, inbox, sent, failures, files, cur, wakeAt,
                   httpVars, restarts, txCount, txTimes, allocCount, envVars,
                   parserVars, keepVars, configVars, mainVars, modemVars, kts1, sessionVars, pureVars>>

\* what the unsynchronised read can yield. Outside RememberSmsSend it is the
\* newest entry. Racing with the append and the trim it is the newest entry
\* before the append, after it or after the trim.
RacyTimestampReads ==
    IF stateMutex = "free" THEN {GetLastSuccessfulSendTimestamp(data)}
    ELSE LET appended == data.Timestamps
             before == SubSeq(appended, 1, Len(appended) - 1)
             after == TrimTimestamps(appended,
                                     CutOffTimestamp(appended[Len(appended)]))
         IN  {GetLastSuccessfulSendTimestamp([Timestamps |-> ts]) :
                  ts \in {before, appended, after}}

\* ... or the index computed from one load of the slice is out of range
\* for the slice as it is when the element is loaded
RacyReadCanPanic == IF stateMutex = "free" THEN {FALSE} ELSE BOOLEAN

\* keepAliveThread: ts1 := appState.GetLastSuccessfulSendTimestamp()
KeepAliveRead ==
    /\ Running
    /\ kpc = "check"
    /\ now >= kwakeAt
    /\ ~shutdown
    /\ \E seen \in RacyTimestampReads, panics \in RacyReadCanPanic :
          IF panics
          THEN run' = "panicked" /\ UNCHANGED <<kpc, kts1>>
          ELSE run' = run /\ kpc' = "decide" /\ kts1' = seen
    /\ UNCHANGED <<now, data, stateFile, inbox, sent, failures, watcherVars,
                   httpVars, restarts, histVars, envVars, parserVars,
                   kid, kname, kwakeAt, configVars, mainVars, modemVars,
                   stateMutex, sessionVars, pureVars>>

\* keepAliveThread: latestTimestamp and sendKeepAlive for the ts1 it has read
sendKeepAliveWith(ts1, d, t) ==
    LET ts2 == GetLastKeepAliveMessageEnqueued(d)
        latest == IF ts1 # Nil /\ ts2 # Nil
                  THEN (IF Val(ts1) > Val(ts2) THEN ts1 ELSE ts2)
                  ELSE IF ts1 # Nil THEN ts1
                  ELSE IF ts2 # Nil THEN ts2
                  ELSE Nil
    IN  /\ latest # Nil
        /\ IsShorterThan(Val(KeepAliveInterval), t - Val(latest))

\* keepAliveThread: GetLastKeepAliveMessageEnqueued, then time.Sleep or
\* NewMessageId, both State methods under the mutex
KeepAliveDecide ==
    /\ Running
    /\ kpc = "decide"
    /\ stateMutex = "free"
    /\ IF sendKeepAliveWith(kts1, data, now)
       THEN /\ data.NextMessageId <= MaxId + 1
            /\ kid' = data.NextMessageId
            /\ data' = NewMessageId(data)
            /\ allocCount' = Bump(allocCount, data.NextMessageId)
            /\ kpc' = "create"
            /\ UNCHANGED kwakeAt
       ELSE /\ kwakeAt' = now + 1
            /\ kpc' = "check"
            /\ UNCHANGED <<data, allocCount, kid>>
    /\ UNCHANGED <<now, run, stateFile, inbox, sent, failures, watcherVars,
                   httpVars, restarts, txCount, txTimes, remembered, envVars,
                   parserVars, kname, configVars, mainVars, modemVars,
                   lockVars, sessionVars, pureVars>>

\* the State methods of the other goroutines wait for the mutex
LockedNewMessageId == stateMutex = "free" /\ HttpNewMessageId
LockedStoreRename == stateMutex = "free" /\ StoreRename
LockedKeepAliveRename == stateMutex = "free" /\ KeepAliveRename

RaceNext ==
    \/ Tick
    \/ LockedNewMessageId
    \/ StoreCreate
    \/ StoreWrite
    \/ LockedStoreRename
    \/ WatcherList
    \/ WatcherSleep
    \/ WatcherNext
    \/ SendRead
    \/ ModemError
    \/ ModemSend
    \/ RememberAppend
    \/ RememberTrim
    \/ MoveToSent
    \/ KeepAliveRead
    \/ KeepAliveDecide
    \/ KeepAliveCreate
    \/ KeepAliveWrite
    \/ LockedKeepAliveRename

RaceSpec == Init /\ [][RaceNext]_vars

----------------------------------------------------------------------------
(* package modem, one step per lock, per serial.Open and per half of a
   sendCmd/sendBytes exchange (the write and drain, then the parsed
   reply). The callers are sendMessage, one SendSms after the other, and
   the modem.Close() deferred by msgqueue.Init. *)

\* what parseModemResponse can hand back for a command: no line at all (also
\* the short write of internalSendBytes, which returns no lines and no
\* error), a final OK or ERROR, the prompt alone or followed by more, and the
\* answers to AT+CPIN?
Responses ==
    { <<>>, <<"OK">>, <<"ERROR">>, <<"> ">>, <<"> ", "OK">>,
      <<"+CPIN: READY", "OK">>, <<"+CPIN: SIM PIN", "OK">>,
      <<"+CPIN: SIM PUK", "OK">> }

\* (r *ModemResponse) isOK
isOK(ls) == \E i \in 1..Len(ls) : ls[i] = "OK"

\* (r *ModemResponse) getResponseLineFor("AT+CPIN"): the first line with the
\* prefix "+CPIN", Nil when there is none
getResponseLineFor(ls) ==
    LET hits == {i \in 1..Len(ls) :
                    ls[i] \in {"+CPIN: READY", "+CPIN: SIM PIN", "+CPIN: SIM PUK"}}
    IN  IF hits = {} THEN Nil
        ELSE Some(ls[CHOOSE i \in hits : \A j \in hits : i <= j])

\* queryPinState: Contains "READY", Contains "SIM PIN", HasPrefix "SIM PUK"
\* (never true of a line that begins with "+CPIN"), else an error
queryPinState(ls) ==
    LET line == getResponseLineFor(ls)
    IN  IF line = Nil THEN "MODEM_PIN_RESPONSE_NOT_RECOGNIZED"
        ELSE IF Val(line) = "+CPIN: READY" THEN "MODEM_PIN_NOT_REQUIRED"
        ELSE IF Val(line) = "+CPIN: SIM PIN" THEN "MODEM_PIN_REQUIRED"
        ELSE "MODEM_PIN_RESPONSE_NOT_RECOGNIZED"

\* internalSendSms: response.IsEmpty() || response.Size() != 1 ||
\* response.Lines[0] != "> ", negated
isPromptAnywhere(ls) == \E i \in 1..Len(ls) : ls[i] = "> "
isPrompt(ls) == Len(ls) = 1 /\ ls[1] = "> "

\* internalClose: the port is closed and serialPort set to nil
internalCloseKeepsPort(port) == port
internalClose(port) == "nil"

\* the command sendCmd/sendBytes writes at each position of SendSms
CmdOf(pc) ==
    CASE pc = "initcmd" -> "initCmds"
      [] pc = "cpinq"   -> "AT+CPIN?"
      [] pc = "cpin"    -> "AT+CPIN="
      [] pc = "cmgf"    -> "AT+CMGF=1"
      [] pc = "cmgs"    -> "AT+CMGS="
      [] pc = "body"    -> "body 0x1a"

CmdStages == {"initcmd", "cpinq", "cpin", "cmgf", "cmgs", "body"}

Opened == [cmd |-> "serial.Open", done |-> TRUE, err |-> FALSE, lines |-> <<>>]

\* a command has been written and its reply not been read yet
Awaiting == exchanges # <<>> /\ ~exchanges[Len(exchanges)].done

sessionFrame == <<now, data, stateFile, inbox, sent, failures, watcherVars,
                  httpVars, restarts, histVars, envVars, parserVars,
                  keepVars, configVars, mainVars, received, lockVars,
                  pureVars>>

\* the inbox watcher runs and msgqueue.Init has not returned yet
SessionInit ==
    /\ InitState
    /\ dropOnRateLimit = DropOnRateLimit
    /\ serialPort = "open"
    /\ ipc = "deferred"

\* sendMessage calls SendSms, internalSendSms is past the debug flags
SessionSendSms ==
    /\ Running
    /\ spc = "idle"
    /\ spc' = "needsInit"
    /\ prev' = result
    /\ exchanges' = <<>>
    /\ rcpt' = 1
    /\ UNCHANGED <<sessionFrame, run, serialPort, ipc, modemMutex, result>>

\* needsInit(): lock, read serialPort, unlock
SessionNeedsInit ==
    /\ Running
    /\ spc = "needsInit"
    /\ modemMutex = "free"
    /\ spc' = IF serialPort = "nil" THEN "open" ELSE "lock"
    /\ UNCHANGED <<sessionFrame, run, serialPort, ipc, rcpt, modemMutex,
                   exchanges, result, prev>>

\* initModem: lock, serial.Open and SetReadTimeout; when one of them fails
\* serialPort stays nil and SendSms returns MODEM_ERR_MODEM_ERROR
SessionOpen ==
    /\ Running
    /\ spc = "open"
    /\ modemMutex = "free"
    /\ \E opened \in BOOLEAN :
          IF opened
          THEN /\ serialPort' = "open"
               /\ modemMutex' = "held"
               /\ exchanges' = <<Opened>>
               /\ spc' = "initcmd"
               /\ result' = result
          ELSE /\ result' = "MODEM_ERR_MODEM_ERROR"
               /\ spc' = "close"
               /\ UNCHANGED <<serialPort, modemMutex, exchanges>>
    /\ UNCHANGED <<sessionFrame, run, ipc, rcpt, prev>>

\* internalSendSms: mutex.Lock()
SessionLock ==
    /\ Running
    /\ spc = "lock"
    /\ modemMutex = "free"
    /\ modemMutex' = "held"
    /\ spc' = "cpinq"
    /\ UNCHANGED <<sessionFrame, run, serialPort, ipc, rcpt, exchanges,
                   result, prev>>

\* sendCmd, sendBytes: the command is written and drained; sendCmd panics
\* when serialPort is nil, internalSendBytes dereferences it
SessionWrite ==
    /\ Running
    /\ spc \in CmdStages
    /\ ~Awaiting
    /\ IF serialPort = "nil"
       THEN run' = "panicked" /\ exchanges' = exchanges
       ELSE /\ run' = run
            /\ exchanges' = Append(exchanges,
                   [cmd |-> CmdOf(spc), done |-> FALSE, err |-> FALSE,
                    lines |-> <<>>])
    /\ UNCHANGED <<sessionFrame, serialPort, ipc, rcpt, modemMutex, spc,
                   result, prev>>

\* the error return of initModem and of internalSendSms: the deferred
\* mutex.Unlock() runs and SendSms goes on to Close()
SessionFails ==
    /\ result' = "MODEM_ERR_MODEM_ERROR"
    /\ modemMutex' = "free"
    /\ spc' = "close"
    /\ rcpt' = rcpt

\* sendBytes: the reply is read. An I/O error makes sendBytes call
\* internalClose; otherwise the caller looks at the lines.
SessionRead ==
    /\ Running
    /\ Awaiting
    /\ \E err \in BOOLEAN, ls \in Responses :
          /\ err => ls = <<>>
          /\ exchanges' = [exchanges EXCEPT ![Len(exchanges)] =
                              [@ EXCEPT !.done = TRUE, !.err = err,
                                        !.lines = ls]]
          /\ IF err
             THEN /\ serialPort' = internalClose(serialPort)
                  /\ SessionFails
             ELSE CASE spc = "initcmd" ->
                         \* initModem: cleanUp() when the reply is no OK
                         IF isOK(ls)
                         THEN /\ modemMutex' = "free"
                              /\ spc' = "lock"
                              /\ UNCHANGED <<serialPort, result, rcpt>>
                         ELSE /\ serialPort' = "nil"
                              /\ SessionFails
                    [] spc = "cpinq" ->
                         \* unlockSim
                         /\ serialPort' = serialPort
                         /\ IF queryPinState(ls) = "MODEM_PIN_NOT_REQUIRED"
                            THEN /\ spc' = "cmgf"
                                 /\ UNCHANGED <<modemMutex, result, rcpt>>
                            ELSE IF queryPinState(ls) = "MODEM_PIN_REQUIRED"
                            THEN /\ spc' = "cpin"
                                 /\ UNCHANGED <<modemMutex, result, rcpt>>
                            ELSE SessionFails
                    [] spc = "cpin" ->
                         \* sendPin
                         /\ serialPort' = serialPort
                         /\ IF isOK(ls)
                            THEN /\ spc' = "cmgf"
                                 /\ UNCHANGED <<modemMutex, result, rcpt>>
                            ELSE SessionFails
                    [] spc = "cmgf" ->
                         \* switchToPlainText
                         /\ serialPort' = serialPort
                         /\ IF isOK(ls)
                            THEN /\ spc' = "recipient"
                                 /\ UNCHANGED <<modemMutex, result, rcpt>>
                            ELSE SessionFails
                    [] spc = "cmgs" ->
                         /\ serialPort' = serialPort
                         /\ IF isPrompt(ls)
                            THEN /\ spc' = "body"
                                 /\ UNCHANGED <<modemMutex, result, rcpt>>
                            ELSE SessionFails
                    [] spc = "body" ->
                         /\ serialPort' = serialPort
                         /\ IF isOK(ls)
                            THEN /\ spc' = "recipient"
                                 /\ rcpt' = rcpt + 1
                                 /\ UNCHANGED <<modemMutex, result>>
                            ELSE SessionFails
    /\ UNCHANGED <<sessionFrame, run, ipc, prev>>

\* internalSendSms: the head of the loop over GetSmsRecipients()
SessionRecipient ==
    /\ Running
    /\ spc = "recipient"
    /\ IF rcpt > NumRecipients
       THEN /\ result' = "MODEM_ERR_NONE"
            /\ modemMutex' = "free"
            /\ spc' = "remember"
       ELSE IF IsAnyRateLimitExceeded(data, now)
       THEN /\ result' = "MODEM_ERR_RATE_LIMIT_EXCEEDED"
            /\ modemMutex' = "free"
            /\ spc' = "idle"
       ELSE /\ spc' = "cmgs"
            /\ UNCHANGED <<result, modemMutex>>
    /\ UNCHANGED <<sessionFrame, run, serialPort, ipc, rcpt, exchanges, prev>>

\* SendSms: Close() after MODEM_ERR_MODEM_ERROR, then the result is returned
SessionClose ==
    /\ Running
    /\ spc = "close"
    /\ modemMutex = "free"
    /\ serialPort' = internalClose(serialPort)
    /\ spc' = "idle"
    /\ UNCHANGED <<sessionFrame, run, ipc, rcpt, modemMutex, exchanges,
                   result, prev>>

\* the modem.Close() deferred by msgqueue.Init waits for the mutex
UnlockedInitReturn == InitReturn
LockedInitReturn == modemMutex = "free" /\ InitReturn

\* sendMessage after a successful SendSms: RememberSmsSend records the
\* second of the send (the ids are left to the pipeline specifications)
SessionRemember ==
    /\ Running
    /\ spc = "remember"
    /\ data' = [data EXCEPT !.Timestamps =
                    TrimTimestamps(Append(@, now), CutOffTimestamp(now))]
    /\ spc' = "idle"
    /\ UNCHANGED <<now, stateFile, inbox, sent, failures, watcherVars,
                   httpVars, restarts, histVars, envVars, parserVars,
                   keepVars, configVars, mainVars, received, lockVars,
                   run, serialPort, ipc, rcpt, modemMutex, exchanges,
                   result, prev, pureVars>>

SessionNext ==
    \/ SessionSendSms
    \/ SessionNeedsInit
    \/ SessionOpen
    \/ SessionLock
    \/ SessionWrite
    \/ SessionRead
    \/ SessionRecipient
    \/ SessionClose
    \/ LockedInitReturn
    \/ SessionRemember

SessionSpec == SessionInit /\ [][SessionNext]_vars

Answered(i) == exchanges[i].done /\ ~exchanges[i].err

EndedWithOK(i) ==
    /\ Answered(i)
    /\ exchanges[i].lines # <<>>
    /\ exchanges[i].lines[Len(exchanges[i].lines)] = "OK"

HasLine(i, line) ==
    \E n \in 1..Len(exchanges[i].lines) : exchanges[i].lines[n] = line

\* the SIM was found unlocked, or was unlocked with the PIN, before exchange i
UnlockedBefore(i) ==
    \E k \in 1..(i - 1) :
        /\ exchanges[k].cmd = "AT+CPIN?"
        /\ Answered(k)
        /\ \/ HasLine(k, "+CPIN: READY")
           \/ /\ HasLine(k, "+CPIN: SIM PIN")
              /\ \E m \in (k + 1)..(i - 1) :
                    exchanges[m].cmd = "AT+CPIN=" /\ EndedWithOK(m)

BodiesAccepted ==
    {i \in 1..Len(exchanges) :
        exchanges[i].cmd = "body 0x1a" /\ EndedWithOK(i)}

InFlight == {i \in 1..Len(exchanges) : ~exchanges[i].done}

\* C39: at most one command (write, drain, read) is in flight on the serial
\* port at any time: sendCmd and sendBytes run with the modem mutex held,
\* so nothing closes the port under an exchange, and the scheduler is in at
\* most one SendSms call.
C39_OneCommandInFlight ==
    /\ Cardinality(InFlight) <= 1
    /\ spc \in CmdStages => modemMutex = "held"
    /\ Awaiting => (modemMutex = "held" /\ serialPort = "open")
    /\ InFlight # {} => spc \in CmdStages

C39_Witness ==
    /\ Awaiting
    /\ spc = "body"
    /\ rcpt = NumRecipients
    /\ ipc = "deferred"

----------------------------------------------------------------------------
(* IsAnyRateLimitExceeded and MessageId.Compare on their own: the
   configuration, the recorded sends, the clock and the two ids are drawn
   when the behaviour begins, and one step makes the call. *)

MaxThreshold == 2
MaxInterval == 2
MaxStamps == 3
MaxCompareId == 12

\* rateLimit1, rateLimit2 of the configuration: not set, or a threshold and
\* an interval in seconds
Limits ==
    {Nil} \cup {Some([Threshold |-> th, Interval |-> iv]) :
                    th \in 1..MaxThreshold, iv \in 1..MaxInterval}

\* what RememberSmsSend leaves in Timestamps: seconds in the order of the
\* sends, the latest last
StampLists ==
    {ts \in UNION {[1..n -> 0..MaxTime] : n \in 0..MaxStamps} :
        \A i \in 1..Len(ts) : \A j \in i..Len(ts) : ts[i] <= ts[j]}

\* (c *State) IsAnyRateLimitExceeded under the configuration l1, l2
IsAnyRateLimitExceededFor(l1, l2, d, t) ==
    IF Len(d.Timestamps) = 0 THEN FALSE
    ELSE IF l1 # Nil
            /\ IsThresholdExceeded(Val(l1), countSms(d, t, Val(l1).Interval))
         THEN TRUE
    ELSE IF l2 # Nil
            /\ IsThresholdExceeded(Val(l2), countSms(d, t, Val(l2).Interval))
         THEN TRUE
    ELSE FALSE

\* MessageId.IsOlder, MessageId.IsNewer
IsOlder(id, other) == Compare(id, other) < 0
IsNewer(id, other) == Compare(id, other) > 0

allButPure == <<now, run, data, stateFile, inbox, sent, failures,
                watcherVars, httpVars, restarts, histVars, envVars,
                parserVars, keepVars, configVars, mainVars, modemVars,
                lockVars, sessionVars>>

LimitsInit ==
    /\ InitProcess
    /\ dropOnRateLimit = DropOnRateLimit
    /\ InitReturned
    /\ limit1 \in Limits
    /\ limit2 \in Limits
    /\ stamps \in StampLists
    /\ clock \in 0..MaxTime
    /\ \A i \in 1..Len(stamps) : stamps[i] <= clock
    /\ exceeded = Nil
    /\ cmpId = FirstMessageId
    /\ cmpOther = FirstMessageId
    /\ cmpResult = Nil

CallIsAnyRateLimitExceeded ==
    /\ exceeded = Nil
    /\ exceeded' = Some(IsAnyRateLimitExceededFor(limit1, limit2,
                            [Timestamps |-> stamps], clock))
    /\ UNCHANGED <<allButPure, limit1, limit2, stamps, clock, compareVars>>

LimitsNext == CallIsAnyRateLimitExceeded

LimitsSpec == LimitsInit /\ [][LimitsNext]_vars

CompareInit ==
    /\ InitProcess
    /\ dropOnRateLimit = DropOnRateLimit
    /\ InitReturned
    /\ limit1 = RateLimit1
    /\ limit2 = RateLimit2
    /\ stamps = <<>>
    /\ clock = 0
    /\ exceeded = Nil
    /\ cmpId \in 1..MaxCompareId
    /\ cmpOther \in 1..MaxCompareId
    /\ cmpResult = Nil

CallCompare ==
    /\ cmpResult = Nil
    /\ cmpResult' = Some([compare |-> Compare(cmpId, cmpOther),
                          older |-> IsOlder(cmpId, cmpOther),
                          newer |-> IsNewer(cmpId, cmpOther)])
    /\ UNCHANGED <<allButPure, limitVars, cmpId, cmpOther>>

CompareNext == CallCompare

CompareSpec == CompareInit /\ [][CompareNext]_vars

\* the number of recorded sends no older than iv seconds at the call
CountWithin(iv) ==
    Cardinality({i \in 1..Len(stamps) : clock - stamps[i] <= iv})

Triggers(l) ==
    /\ l # Nil
    /\ CountWithin(Val(l).Interval) > Val(l).Threshold

\* C36: IsAnyRateLimitExceeded returns true if and only if, for a configured
\* limit, the number of recorded sends within its interval is strictly above
\* its threshold (threshold 2: three sends within the window give true, two
\* give false); a limit that is not configured never triggers.
C36_ExceededIffCountAboveThreshold ==
    exceeded # Nil => (Val(exceeded) <=> (Triggers(limit1) \/ Triggers(limit2)))

C36_Witness ==
    /\ exceeded = Some(TRUE)
    /\ limit1 = Nil
    /\ limit2 # Nil
    /\ Val(limit2).Threshold = 2
    /\ CountWithin(Val(limit2).Interval) = 3

\* C40: MessageId.Compare is the order of the integers: negative iff
\* id < other, 0 iff id = other, positive iff id > other; IsOlder(other) is
\* true exactly when id < other.
C40_CompareIsTheIntegerOrder ==
    cmpResult # Nil =>
        /\ Val(cmpResult).compare < 0 <=> cmpId < cmpOther
        /\ Val(cmpResult).compare = 0 <=> cmpId = cmpOther
        /\ Val(cmpResult).compare > 0 <=> cmpId > cmpOther
        /\ Val(cmpResult).older <=> cmpId < cmpOther

----------------------------------------------------------------------------
(* parseModemResponse, one action per call of byteFromModem. The modem
   sends its answer piece by piece into the serial input buffer; a read
   timeout can occur whenever a read is pending. *)

Tokens == {CRLF, OkBytes, ErrorBytes, <<"x">>, <<CR>>, <<">", " ">>}

pipelineVars == <<now, run, data, stateFile, inbox, sent, failures,
                  watcherVars, httpVars, restarts, histVars, envVars,
                  keepVars, configVars, mainVars, modemVars, lockVars, sessionVars, pureVars>>

\* sendBytes: ResetInputBuffer, then parseModemResponse begins with
\* matcher := responseMatcher{}; matcher.resetStateMachine()
ParseStart ==
    /\ ppc # "read"
    /\ calls < MaxCalls
    /\ \E req \in BOOLEAN : requiresOkOrError' = req
    /\ stream' = <<>>
    /\ pieces' = 0
    /\ consumed' = 0
    /\ timedOut' = FALSE
    /\ lines' = <<>>
    /\ buffer' = <<>>
    /\ matched' = <<>>
    /\ currentlyMatching' = "startingNewline"
    /\ ppc' = "read"
    /\ calls' = calls + 1
    /\ UNCHANGED <<currentIndex, pipelineVars>>

\* the modem sends the next piece: when the reader has caught up with it,
\* or unsolicited after the reader has returned
ModemSends ==
    /\ \/ ppc = "read" /\ consumed = Len(stream)
       \/ ppc \in {"done", "timeout"}
    /\ pieces < MaxTokens
    /\ pieces' = pieces + 1
    /\ \E t \in Tokens : stream' = stream \o t
    /\ UNCHANGED <<currentIndex, currentlyMatching, matched, buffer, lines,
                   requiresOkOrError, consumed, timedOut, ppc, calls,
                   pipelineVars>>

\* the matcher is a local of parseModemResponse: gone when it returns
MatcherGone ==
    /\ currentlyMatching' = "nil"
    /\ matched' = <<>>
    /\ buffer' = <<>>

\* one iteration of the loop for a byte: tryMatch and the switch on its result
ReadByte ==
    /\ ppc = "read"
    /\ consumed < Len(stream)
    /\ consumed' = consumed + 1
    /\ timedOut' = FALSE
    /\ LET nextChar == stream[consumed + 1]
           r == tryMatch(currentlyMatching, currentIndex, matched, nextChar)
       IN  /\ currentIndex' = r.currentIndex
           /\ CASE r.state = "PARSE_STATE_MATCH_DONE" ->
                     IF wasMatched(r.matched, "okMsg") \/ wasMatched(r.matched, "errorMsg")
                     THEN \* break loop, then the flush before the return
                          /\ lines' = flushCharBuffer(lines, Append(buffer, nextChar))
                          /\ ppc' = "done"
                          /\ MatcherGone
                     ELSE LET flushed == flushCharBuffer(lines, Append(buffer, nextChar))
                          IN  /\ lines' = flushed
                              /\ IF flushed # <<>>
                                    /\ Contains(flushed[Len(flushed)], ErrorBytes)
                                 THEN /\ ppc' = "done"
                                      /\ MatcherGone
                                 ELSE /\ ppc' = "read"
                                      /\ buffer' = <<>>
                                      /\ currentlyMatching' = "startingNewline"
                                      /\ matched' = <<>>
                [] r.state = "PARSE_STATE_MATCH_CONTINUE" ->
                     /\ IF r.currentlyMatching = "startingNewline"
                           /\ r.currentIndex["startingNewline"] = 1
                        THEN /\ lines' = flushCharBuffer(lines, buffer)
                             /\ buffer' = <<nextChar>>
                        ELSE /\ lines' = lines
                             /\ buffer' = Append(buffer, nextChar)
                     /\ currentlyMatching' = r.currentlyMatching
                     /\ matched' = r.matched
                     /\ ppc' = "read"
                [] r.state = "PARSE_STATE_MATCH_FAILED" ->
                     /\ buffer' = Append(buffer, nextChar)
                     /\ currentlyMatching' = "startingNewline"
                     /\ matched' = <<>>
                     /\ lines' = lines
                     /\ ppc' = "read"
    /\ UNCHANGED <<requiresOkOrError, stream, pieces, calls, pipelineVars>>

\* byteFromModem reports a timeout: swallowed, or the loop ends
ReadTimeout ==
    /\ ppc = "read"
    /\ timedOut' = TRUE
    /\ IF requiresOkOrError
       THEN UNCHANGED <<lines, buffer, matched, currentlyMatching, ppc>>
       ELSE /\ lines' = flushCharBuffer(lines, buffer)
            /\ ppc' = "timeout"
            /\ MatcherGone
    /\ UNCHANGED <<currentIndex, requiresOkOrError, stream, consumed, pieces,
                   calls, pipelineVars>>

\* byteFromModem reports an I/O error: return nil, nextChar.err. What the
\* port held is lost to the program.
ReadError ==
    /\ ppc = "read"
    /\ lines' = <<>>
    /\ ppc' = "error"
    /\ MatcherGone
    /\ stream' = <<>>
    /\ consumed' = 0
    /\ pieces' = 0
    /\ timedOut' = FALSE
    /\ UNCHANGED <<currentIndex, requiresOkOrError, calls, pipelineVars>>

ParserNext ==
    \/ ParseStart
    \/ ModemSends
    \/ ReadByte
    \/ ReadTimeout
    \/ ReadError

ParserSpec == Init /\ [][ParserNext]_vars

----------------------------------------------------------------------------
(* Claims about the delivery pipeline *)

\* C1: an accepted message is successfully transmitted at most once, across
\* ticks, modem failures, file-move failures and restarts at any point: for
\* an id that NewMessageId handed out once, modem.SendSms returns success
\* at most once.
C1_TransmittedAtMostOnce ==
    \A id \in Ids : allocCount[id] <= 1 => txCount[id] <= 1

RECURSIVE SumTimes(_, _)
SumTimes(from, to) ==
    IF from > to THEN 0 ELSE txTimes[from] + SumTimes(from + 1, to)

\* number of successful sends in the I seconds that start at second w
WindowCount(w, interval) == SumTimes(w, Min(w + interval - 1, MaxTime))

\* C2: for a configured rate limit N/I no window of I seconds holds more
\* than N successful sends.
C2_AtMostNPerWindow ==
    RateLimit1 # Nil =>
        \A w \in 0..MaxTime :
            WindowCount(w, Val(RateLimit1).Interval) <= Val(RateLimit1).Threshold

\* C3: no message id is handed out twice by NewMessageId, restarts included.
C3_NoIdHandedOutTwice ==
    \A id \in Ids : allocCount[id] <= 1

\* C4: whenever the scheduler is about to call RememberSmsSend(msg), msg.Id
\* is above last_successful_message_id, so the fatal check never fires
\* (stated here for the first run of the daemon already).
C4_RememberOnlyNewerIds ==
    (restarts = 0 /\ wpc = "remember") =>
        (data.LastSuccessfulMessageId = Nil
         \/ cur.Id > Val(data.LastSuccessfulMessageId))

\* C6: the scheduler never acts on an uncommitted enqueue: the file that
\* sendMessage reads, sends, deletes or moves is never a .tmp file.
C6_SchedulerIgnoresTmp ==
    wpc \in {"send", "modem", "remember", "move"} => ~IsTmpName(cur.FileName)

\* C12: right after RememberSmsSend(msg) has returned (it returns only when
\* msg.Id is above the last successful id), last_successful_message_id is
\* msg.Id and msg.Id is not among the pending ids, whether or not it was
\* pending before.
C12_RememberSetsLastAndClearsPending ==
    [][(wpc = "remember" /\ wpc' = "move") =>
          /\ data'.LastSuccessfulMessageId = Some(cur.Id)
          /\ ~InSeq(cur.Id, data'.PendingMessageIds)]_vars

\* RememberSmsSend has just returned for id 2, which was not pending (the
\* pending list was lost in a restart), with id 1 still pending
C12_Witness ==
    /\ wpc = "move"
    /\ restarts = 1
    /\ cur.Id = 2
    /\ data.LastSuccessfulMessageId = Some(2)
    /\ stateFile = writeState(data)
    /\ txCount[2] = 1
    /\ allocCount[2] = 1


\* C13: right after RememberSmsSend has returned at time now, now is the
\* newest entry of msg_timestamps, which is what
\* GetLastSuccessfulSendTimestamp hands to the keep-alive worker, whatever
\* the list held before.
C13_NowIsNewestTimestamp ==
    [][(wpc = "remember" /\ wpc' = "move") =>
          GetLastSuccessfulSendTimestamp(data') = Some(now)]_vars

\* C14: in every reachable state countSms(interval) is the number of
\* entries ts of msg_timestamps with now - interval <= ts <= now, for every
\* interval.
C14_CountWithinInterval ==
    \A interval \in 0..MaxTime :
        countSms(data, now, interval) =
            Cardinality({i \in 1..Len(data.Timestamps) :
                            /\ now - interval <= data.Timestamps[i]
                            /\ data.Timestamps[i] <= now})

\* two sends are on record, one of them older than a one-second interval
C14_Witness ==
    /\ Len(data.Timestamps) = 2
    /\ countSms(data, now, 1) = 1
    /\ countSms(data, now, 2) = 2

CommittedInInbox(id) ==
    \E f \in inbox : ~IsTmpName(f.name) /\ f.body # "" /\ MsgFromFileName(f.name).Id = id

InSent(id) ==
    \E f \in sent : MsgFromFileName(f.name).Id = id

\* C5: failed deliveries are retried until they succeed: once the modem
\* succeeds on every attempt, a message whose inbox file is committed ends
\* up in sent/ with the daemon still running (or the clock of the model
\* reaches its horizon first).
C5_EventuallySent ==
    \A id \in 1..MaxId :
        [](healthy /\ CommittedInInbox(id)
              => <>((InSent(id) /\ Running) \/ now = MaxTime))

\* C16: crash recovery: after a restart, a message whose committed inbox
\* file survived the crash and that was never transmitted is delivered even
\* if its id is missing from the reloaded pending list: its file leaves
\* inbox/ only once the modem has transmitted it, and is then in sent/
C16_RecoveredFileIsSent ==
    [][\A id \in 1..MaxId :
          (/\ restarts >= 1
           /\ CommittedInInbox(id)
           /\ ~InSeq(id, data.PendingMessageIds)
           /\ txCount[id] = 0
           /\ ~CommittedInInbox(id)')
          => (txCount'[id] > 0 /\ InSent(id)')]_vars

\* some file of message id is in the inbox
InInbox(id) ==
    \E f \in inbox : MsgFromFileName(f.name).ok /\ MsgFromFileName(f.name).Id = id

\* C17: when modem.SendSms returns RATE_LIMIT_EXCEEDED for a message, its
\* inbox file is deleted and its failure-tracker entry removed if and only
\* if dropOnRateLimit is true; with dropOnRateLimit false the file stays in
\* inbox/, a failure is recorded at the current second and the message is
\* not due again before the backoff has passed
C17_DropOrRetryOnRateLimit ==
    [][(ModemSend /\ IsAnyRateLimitExceeded(data, now)) =>
          /\ dropOnRateLimit <=> (~InInbox(cur.Id)' /\ cur.Id \notin DOMAIN failures')
          /\ ~dropOnRateLimit =>
                /\ InInbox(cur.Id)'
                /\ cur.Id \in DOMAIN failures'
                /\ failures'[cur.Id].LastFailureTimestamp = now
                /\ failures'[cur.Id].FailureCount >= 1
                /\ ~IsDue(cur.Id, now)']_vars

\* the number of recorded sends no older than interval seconds
RecordedWithin(interval) ==
    Cardinality({i \in 1..Len(data.Timestamps) : now - data.Timestamps[i] <= interval})

\* more sends are on record within the interval of rate limit #1 than its
\* threshold
LimitExceeded ==
    /\ RateLimit1 # Nil
    /\ RecordedWithin(Val(RateLimit1).Interval) > Val(RateLimit1).Threshold

\* C18: when a rate limit is exceeded at the check made before AT+CMGS,
\* modem.SendSms returns without transmitting anything (no AT+CMGS, no
\* body) and leaves msg_timestamps, pending, last_successful_message_id and
\* next_message_id, in memory and in state.json, as they were
C18_RateLimitedSendChangesNothing ==
    [][(wpc = "modem" /\ wpc' # "modem" /\ LimitExceeded) =>
          /\ wpc' = "next"
          /\ txCount' = txCount
          /\ txTimes' = txTimes
          /\ data' = data
          /\ stateFile' = stateFile]_vars

\* message 3, committed under its final name, was dropped on an exceeded
\* rate limit: never transmitted, in neither directory, no tracker entry
C18_Witness ==
    /\ dropOnRateLimit
    /\ wpc = "next"
    /\ cur.Id = 3
    /\ ~IsTmpName(cur.FileName)
    /\ LimitExceeded
    /\ txCount[3] = 0
    /\ ~InInbox(3)
    /\ ~InSent(3)
    /\ ~HasFailure(3)

\* C19: once RememberSmsSend has returned for a file, a failed rename
\* leaves the file in the inbox, and whenever the scheduler takes the file
\* up again it goes on to the move without calling the modem
C19_NoResendAfterFailedMove ==
    [][/\ (wpc = "move" /\ wpc' = "next" /\ FileExist(inbox, cur.FileName))
            => (FileExist(inbox', cur.FileName) \/ FileExist(sent', cur.FileName))
       /\ (/\ wpc = "send"
           /\ wpc' # "send"
           /\ restarts' = restarts
           /\ cur.FileName \in remembered
           /\ FileExist(inbox, cur.FileName))
            => wpc' = "move"]_vars

\* every id handed out is below next_message_id in state.json, and
\* state.json holds the timestamps and the last successful id of the State
StateFileReflectsRun ==
    /\ \A id \in Ids : allocCount[id] > 0 => id < stateFile.next_message_id
    /\ stateFile.msg_timestamps = data.Timestamps
    /\ stateFile.last_successful_message_id = data.LastSuccessfulMessageId

\* C20: after SIGINT/SIGTERM State is flushed to state.json only after the
\* scheduler and the keep-alive worker have stopped, and once the process
\* has ended state.json reflects every id allocation and every
\* RememberSmsSend of the run
C20_FinalStateReflectsRun ==
    /\ mpc \in {"stop", "exited"} => (wpc = "stopped" /\ kpc = "stopped")
    /\ (mpc # "wait" /\ run # "running") => StateFileReflectsRun

\* C21: when StoreMessage fails in sendSms, the id is removed from the
\* pending list, next_message_id stays as it was, and the scheduler has not
\* sent and will not send a message for that id: none was transmitted and
\* no inbox file of the id is left
C21_FailedStoreRollsBack ==
    [][(/\ hpc = "rename"
        /\ hpc' = "idle"
        /\ restarts' = restarts
        /\ ~FileExist(inbox, hname \o TmpSuffix))
          => /\ ~InSeq(hid, data'.PendingMessageIds)
             /\ data'.NextMessageId = data.NextMessageId
             /\ data'.NextMessageId > hid
             /\ txCount[hid] = 0
             /\ ~InInbox(hid)']_vars

DueAhead(fs, t) ==
    {MsgFromFileName(fs[i]).Id :
        i \in {k \in 1..Len(fs) : MsgFromFileName(fs[k]).ok
                                  /\ IsDue(MsgFromFileName(fs[k]).Id, t)}}

\* C23: within one tick the watcher attempts the due entries in ascending
\* numeric id order: when it picks an entry for a send attempt, no due
\* entry that is still ahead in the same listing has a smaller id.
C23_AscendingIdOrderWithinTick ==
    [][(wpc = "next" /\ wpc' = "send")
          => \A id \in DueAhead(files', now) : cur'.Id <= id]_vars

\* C24: sendCmd never runs on a closed serial handle: whenever
\* internalSendSms is past its needsInit()/initModem() check and about to
\* enter the mutex-protected command sequence, the port is open, also while
\* the deferred modem.Close() of msgqueue.Init is pending or has just run.
C24_CommandsOnOpenPort ==
    wpc = "commands" => serialPort = "open"

\* C26: with several recipients, no recipient is given the body of one
\* message more than once, also when the send failed with a modem error at
\* a later recipient and the message is retried.
C26_EachRecipientAtMostOnce ==
    \A r \in 1..NumRecipients : \A id \in Ids : received[r][id] <= 1

\* the entries of ts that are not older than the cut-off, in their order
RECURSIVE NotOlderThan(_, _)
NotOlderThan(ts, cutOff) ==
    IF ts = <<>> THEN <<>>
    ELSE IF Head(ts) < cutOff THEN NotOlderThan(Tail(ts), cutOff)
    ELSE <<Head(ts)>> \o NotOlderThan(Tail(ts), cutOff)

\* C27: after RememberSmsSend at time now, msg_timestamps holds exactly the
\* entries it held before, plus now, that are not older than now minus the
\* longest configured interval: every older entry is gone and none of the
\* others is.
C27_TimestampsAreTheWindow ==
    [][(wpc = "remember" /\ wpc' = "move") =>
          data'.Timestamps =
              NotOlderThan(Append(data.Timestamps, now), CutOffTimestamp(now))]_vars

\* C28: the State fields are read and written under the State mutex only:
\* the keep-alive worker reads the newest send timestamp at no moment at
\* which RememberSmsSend holds the mutex, between its append and its trim.
C28_ReadOnlyUnderMutex ==
    [][(kpc = "check" /\ kpc' = "decide") => stateMutex = "free"]_vars

\* id a was handed out by NewMessageId and StoreMessage has not yet renamed
\* its file to the final name
StoreInFlight(a) ==
    \/ hid = a /\ hpc \in {"create", "write", "rename"}
    \/ kid = a /\ kpc \in {"create", "write", "rename"}

\* ... and the scheduler has seen nothing of a so far: no entry of inbox/
\* carries the id, and it was never transmitted
NotYetVisible(a) ==
    StoreInFlight(a) /\ ~InInbox(a) /\ txCount[a] = 0

\* C29: files become visible in id order: the scheduler never transmits
\* message b while a smaller id a has been allocated by another caller and
\* a's file is not yet committed to inbox/.
C29_VisibleInIdOrder ==
    [][(wpc = "modem" /\ wpc' = "remember")
          => \A a \in Ids : a < cur.Id => ~NotYetVisible(a)]_vars

\* C30: every id in pending_message_ids has a file <id>_* in inbox/ or is
\* being transmitted. An id whose StoreMessage is under way is left aside:
\* its file is about to appear.
C30_PendingHasFileOrIsInTransit ==
    \A i \in 1..Len(data.PendingMessageIds) :
        LET id == data.PendingMessageIds[i]
        IN  \/ InInbox(id)
            \/ cur.Id = id /\ wpc \in {"send", "modem", "remember", "move"}
            \/ StoreInFlight(id)

\* C31: in every reachable state, also after a restart that reloads
\* state.json while files of the previous run are in inbox/,
\* last_successful_message_id, when set, is below next_message_id.
C31_LastSuccessfulBelowNext ==
    data.LastSuccessfulMessageId # Nil
        => Val(data.LastSuccessfulMessageId) < data.NextMessageId

\* C32: concurrent NewMessageId calls (HTTP handler, keep-alive worker) never
\* return the same id within one run: every call runs with the state mutex
\* free, returns the current next_message_id, appends it to the pending
\* ids, increments next_message_id by exactly one and leaves state.json
\* alone.
C32_AllocationIsAtomic ==
    [][(allocCount' # allocCount) =>
          LET id == data.NextMessageId
          IN  /\ stateMutex = "free"
              /\ \/ hid' = id /\ hpc' = "create" /\ kid' = kid
                 \/ kid' = id /\ kpc' = "create" /\ hid' = hid
              /\ allocCount[id] = 0
              /\ allocCount' = [allocCount EXCEPT ![id] = 1]
              /\ data'.PendingMessageIds = Append(data.PendingMessageIds, id)
              /\ data'.NextMessageId = id + 1
              /\ stateFile' = stateFile]_vars

C32_Witness ==
    /\ hpc \in {"create", "write", "rename"}
    /\ kpc \in {"create", "write", "rename"}
    /\ hid # kid
    /\ allocCount[hid] = 1
    /\ allocCount[kid] = 1

\* the id is not pending and older than the last successful one: the file
\* is not the one RememberSmsSend has just recorded
StaleFile(id) ==
    /\ ~InSeq(id, data.PendingMessageIds)
    /\ data.LastSuccessfulMessageId # Nil
    /\ id < Val(data.LastSuccessfulMessageId)

\* C35: when the scheduler finds an inbox file whose id is not pending and
\* not above last_successful_message_id, it deletes the file from inbox/,
\* and the file does not appear in sent/; the modem is not invoked and
\* State is not changed.
C35_StaleFileIsDeleted ==
    [][(/\ wpc = "move"
        /\ wpc' = "next"
        /\ StaleFile(cur.Id)
        /\ FileExist(inbox, cur.FileName))
          => /\ inbox' = Remove(inbox, cur.FileName)
             /\ sent' = sent
             /\ data' = data
             /\ txCount' = txCount]_vars

\* C37: in every reachable state no message id has a file in inbox/ and a
\* file in sent/ at the same time (the move is one rename, and a message
\* that has reached sent/ does not come back to inbox/).
C37_NeverInInboxAndSent ==
    \A id \in Ids : ~(InInbox(id) /\ InSent(id))

\* Timestamps is kept with the latest send last; read from its end it is
\* the list newest first
NewestFirst(ts) == [i \in 1..Len(ts) |-> ts[Len(ts) + 1 - i]]

Descending(ts) == \A i \in 1..(Len(ts) - 1) : ts[i] >= ts[i + 1]

\* C38: in every reachable state msg_timestamps, in memory and in
\* state.json, is ordered by time: read newest first, every entry is at
\* least as new as the one after it, whatever RememberSmsSend appended and
\* trimmed.
C38_TimestampsOrderedByTime ==
    /\ Descending(NewestFirst(data.Timestamps))
    /\ Descending(NewestFirst(stateFile.msg_timestamps))

C38_Witness ==
    /\ Len(data.Timestamps) >= 2
    /\ data.Timestamps[1] < data.Timestamps[Len(data.Timestamps)]
    /\ stateFile.msg_timestamps = data.Timestamps

----------------------------------------------------------------------------
(* Claims about the delivery-failure tracker *)

Cube(n) == n * n * n

\* C7: with failure count n and last failure time t recorded for an id, no
\* send attempt is made for it before t + min(n,10)^3 seconds; for n >= 10
\* the id is due exactly from t + 1000 on; an id without a recorded failure
\* is always due.
C7_Backoff ==
    /\ (wpc \in {"send", "modem"} /\ HasFailure(cur.Id)) =>
           now >= failures[cur.Id].LastFailureTimestamp
                      + Cube(Min(failures[cur.Id].FailureCount, 10))
    /\ \A id \in DOMAIN failures :
           failures[id].FailureCount >= 10 =>
               (IsDue(id, now) <=> now >= failures[id].LastFailureTimestamp + 1000)
    /\ \A id \in Ids \ DOMAIN failures : IsDue(id, now)

\* a send attempt for an id that has failed more than ten times
C7_Witness ==
    /\ wpc = "modem"
    /\ HasFailure(cur.Id)
    /\ failures[cur.Id].FailureCount > 10
    /\ \E id \in Ids : ~HasFailure(id)

----------------------------------------------------------------------------
(* Claims about the response parser *)

\* the bytes byteFromModem has handed out in this invocation
Read == SubSeq(stream, 1, consumed)

\* a line that ends a response: equal to OK, or containing ERROR
IsTerminatorLine(line) == line = OkBytes \/ Contains(line, ErrorBytes)

NoTerminatorIn(s) ==
    \A i \in 1..Len(Split(s)) : ~IsTerminatorLine(Split(s)[i])

\* the stream is <prefix> CRLF OK CRLF <suffix> with Len(prefix) = k - 1
OkAt(k) ==
    /\ k + 5 <= Len(stream)
    /\ SubSeq(stream, k, k + 5) = CRLF \o OkBytes \o CRLF

\* C8: for every byte stream <prefix> CRLF OK CRLF <suffix> (no line of the
\* prefix being a terminator itself, and the prefix not ending in a CR), a
\* parse that ends on a terminator returns the non-blank lines of
\* split(prefix, CRLF) followed by OK and has read exactly up to the CRLF
\* that ends OK.
C8_OkTerminatedResponse ==
    \A k \in 1..Len(stream) :
        (/\ ppc = "done"
         /\ OkAt(k)
         /\ NoTerminatorIn(SubSeq(stream, 1, k - 1))
         /\ (k > 1 => stream[k - 1] # CR)) =>
            /\ lines = KeepNonBlank(Split(SubSeq(stream, 1, k - 1))) \o <<OkBytes>>
            /\ consumed = k + 5

\* a CRLF-terminated line containing ERROR has been read
ErrorLineRead ==
    \E i \in 1..(Len(Split(Read)) - 1) : Contains(Split(Read)[i], ErrorBytes)

\* C9: once a CRLF-terminated line containing ERROR has been read the
\* response has ended; with requiresOkOrError = true the parser is not
\* found waiting through a read timeout after such a line.
C9_EndsAtErrorLine ==
    (ppc = "read" /\ requiresOkOrError /\ timedOut) => ~ErrorLineRead

\* C10: with requiresOkOrError = false and no terminator line among the
\* bytes read (and the last byte read not a CR waiting for its LF), the
\* parser returns only at a read timeout, and then with the non-blank
\* CRLF-separated lines of everything read, the unterminated last segment
\* included.
C10_TimeoutReturnsLines ==
    (/\ ~requiresOkOrError
     /\ ppc \in {"done", "timeout"}
     /\ NoTerminatorIn(Read)
     /\ (consumed > 0 => stream[consumed] # CR)) =>
        /\ ppc = "timeout"
        /\ lines = KeepNonBlank(Split(Read))

\* the last CRLF-terminated line among the bytes read (<<>> when none)
LastLineRead ==
    IF Len(Split(Read)) < 2 THEN <<>> ELSE Split(Read)[Len(Split(Read)) - 1]

\* C11: the OK terminator is matched structurally: when the parser returns
\* on a terminator, the line it has just read is OK itself (or an ERROR
\* line), never a line that merely contains or ends with OK such as xOK.
C11_OkIsStructural ==
    ppc = "done" => IsTerminatorLine(LastLineRead)


\* "OK CRLF text CRLF", the text being one byte
OkThenText == OkBytes \o CRLF \o <<"x">> \o CRLF

\* C25: what parseModemResponse returns depends on the bytes and the flag
\* only, not on earlier invocations: in every invocation with
\* requiresOkOrError, the first as well as a later one, to which the port
\* has delivered OK CRLF text CRLF, the parser has returned exactly [OK].
C25_SameResultOnEveryInvocation ==
    (calls >= 1 /\ requiresOkOrError /\ stream = OkThenText)
        => (ppc = "done" /\ lines = <<OkBytes>>)

====
